---- MODULE Spec2Model ----
(***************************************************************************)
(* A model of the SGSchemaSync generation engine.                          *)
(*                                                                         *)
(* Text is modelled as a sequence of lines and a line as the sequence of   *)
(* its word tokens (the maximal \w+ runs of the line, as strings), so that *)
(* a whole-word regular-expression replacement /\bX\b/g is a replacement   *)
(* of the tokens equal to X.  Names are real strings: prefixing is string  *)
(* concatenation and startsWith is a comparison of leading characters.     *)
(***************************************************************************)
EXTENDS Integers, Sequences, FiniteSets, TLC

(***************************************************************************)
(* Bounds of the model.                                                    *)
(***************************************************************************)
\* operations handed to the type resolver in one generation run
MaxOps == 2

(***************************************************************************)
(* String helpers (JavaScript String methods).                             *)
(***************************************************************************)
\* String.prototype.startsWith
StartsWith(s, p) ==
  /\ Len(p) <= Len(s)
  /\ SubSeq(s, 1, Len(p)) = p

\* String.prototype.indexOf, 1-based; 0 when sub does not occur in s
IndexOf(s, sub) ==
  LET hits == { i \in 1..(Len(s) - Len(sub) + 1) : SubSeq(s, i, i + Len(sub) - 1) = sub }
  IN  IF hits = {} THEN 0 ELSE CHOOSE i \in hits : \A j \in hits : i <= j

\* String.prototype.replace with a string pattern: the first occurrence only
ReplaceFirst(s, sub, rep) ==
  LET i == IndexOf(s, sub)
  IN  IF i = 0 THEN s
      ELSE SubSeq(s, 1, i - 1) \o rep \o SubSeq(s, i + Len(sub), Len(s))

\* line.replace(sub, rep) on a tokenised line: the first token holding sub
ReplaceFirstInLine(line, sub, rep) ==
  LET hits == { i \in 1..Len(line) : IndexOf(line[i], sub) > 0 }
  IN  IF hits = {} THEN line
      ELSE LET k == CHOOSE i \in hits : \A j \in hits : i <= j
           IN  [line EXCEPT ![k] = ReplaceFirst(line[k], sub, rep)]

\* line.replace(new RegExp(`\\b${word}\\b`, "g"), rep) on a tokenised line
ReplaceWordInLine(line, word, rep) ==
  [i \in 1..Len(line) |-> IF line[i] = word THEN rep ELSE line[i]]

\* membership in a JavaScript Set kept in insertion order
SetHas(set, x) == \E i \in 1..Len(set) : set[i] = x

\* Set.prototype.add: appends unless present
SetAdd(set, x) == IF SetHas(set, x) THEN set ELSE Append(set, x)

(***************************************************************************)
(* filterAndPrefixDeclarations (generator-parts.ts 563-621).               *)
(***************************************************************************)
NoName == ""

\* line.match(/^export (interface|type|enum) (\w+)/)
IsExportLine(line) ==
  /\ Len(line) >= 3
  /\ line[1] = "export"
  /\ line[2] \in {"interface", "type", "enum"}

\* the name a line declares, NoName for any other line
DeclaredName(line) == IF IsExportLine(line) THEN line[3] ELSE NoName

\* commitBuffer without the seenNames guard: every buffered declaration is kept
commitBufferNoGuard(st) ==
  [st EXCEPT !.resultLines = st.resultLines \o st.buffer,
             !.seenNames = IF st.currentName # NoName
                           THEN SetAdd(st.seenNames, st.currentName)
                           ELSE st.seenNames,
             !.buffer = <<>>,
             !.currentName = NoName]

\* the closure commitBuffer: keep the buffered declaration unless its name was seen
commitBuffer(st) ==
  IF st.currentName # NoName
  THEN IF ~SetHas(st.seenNames, st.currentName)
       THEN [st EXCEPT !.resultLines = st.resultLines \o st.buffer,
                       !.seenNames = SetAdd(st.seenNames, st.currentName),
                       !.buffer = <<>>,
                       !.currentName = NoName]
       ELSE [st EXCEPT !.buffer = <<>>, !.currentName = NoName]
  ELSE [st EXCEPT !.resultLines = st.resultLines \o st.buffer,
                  !.buffer = <<>>,
                  !.currentName = NoName]

\* the callback of seenNames.forEach: rewrite the original of one renamed name
ReplaceOriginal(line, name, schemaPrefix) ==
  IF StartsWith(name, schemaPrefix)
  THEN ReplaceWordInLine(line, ReplaceFirst(name, schemaPrefix, ""), name)
  ELSE line

\* seenNames.forEach(...): rewrite the originals of the renamed names, in insertion order
RECURSIVE ReplaceSeen(_, _, _, _)
ReplaceSeen(line, seenNames, schemaPrefix, i) ==
  IF i > Len(seenNames) THEN line
  ELSE ReplaceSeen(ReplaceOriginal(line, seenNames[i], schemaPrefix),
                   seenNames, schemaPrefix, i + 1)

\* buffer.push(processedLine) (lines 607-615)
PushLine(st, line, schemaPrefix) ==
  [st EXCEPT !.buffer = Append(st.buffer, ReplaceSeen(line, st.seenNames, schemaPrefix, 1))]

\* for (let i = 0; i < buffer.length - 1; i++) buffer[i] = buffer[i].replace(\bname\b, prefixed)
RenameEarlier(buffer, currentName, prefixed) ==
  [i \in 1..Len(buffer) |->
     IF i < Len(buffer) THEN ReplaceWordInLine(buffer[i], currentName, prefixed)
     ELSE buffer[i]]

\* a declaration line, met in the state c that commitBuffer left (lines 592-605)
DeclarationLine(c, line, schemaPrefix) ==
  IF ~StartsWith(line[3], schemaPrefix)
  THEN [c EXCEPT !.buffer =
                   RenameEarlier(
                     Append(c.buffer,
                            ReplaceFirstInLine(line, line[3], schemaPrefix \o line[3])),
                     line[3], schemaPrefix \o line[3]),
                 !.currentName = schemaPrefix \o line[3]]
  ELSE PushLine([c EXCEPT !.currentName = line[3]], line, schemaPrefix)

\* one iteration of `for (const line of lines)`
ProcessLine(st, line, schemaPrefix) ==
  IF IsExportLine(line) THEN DeclarationLine(commitBuffer(st), line, schemaPrefix)
  ELSE PushLine(st, line, schemaPrefix)

RECURSIVE ProcessLines(_, _, _, _)
ProcessLines(st, lines, schemaPrefix, i) ==
  IF i > Len(lines) THEN st
  ELSE ProcessLines(ProcessLine(st, lines[i], schemaPrefix), lines, schemaPrefix, i + 1)

\* resultLines.join("\n"), together with the registry as the call leaves it
Joined(st) == [tsType |-> st.resultLines, seenNames |-> st.seenNames]

\* returns the kept lines and the registry as the call leaves it
filterAndPrefixDeclarations(tsCode, seenNames, schemaPrefix) ==
  Joined(commitBuffer(ProcessLines([resultLines |-> <<>>, buffer |-> <<>>,
                                    currentName |-> NoName, seenNames |-> seenNames],
                                   tsCode, schemaPrefix, 1)))

(***************************************************************************)
(* The declaration compiler (json-schema-to-typescript `compile`), an       *)
(* external black box: for a schema fragment and a root name it either      *)
(* throws or renders the root declaration followed by the declarations of   *)
(* the named schemas the fragment pulls in.  The fragments of the model:    *)
(***************************************************************************)
SchemaIds == {"Plain", "WithPet", "WithCategory", "WithLegacy", "Broken"}

\* the named schemas a fragment's root refers to
SchemaRefs(schema) ==
  CASE schema = "WithPet" -> <<"Pet">>
    [] schema = "WithCategory" -> <<"Category">>
    [] schema = "WithLegacy" -> <<"SSGEN_Legacy">>
    [] OTHER -> <<>>

\* the named schemas a named schema refers to (Category is a tree: it names itself)
AuxRefs(aux) ==
  CASE aux = "Pet" -> <<"Category">>
    [] aux = "Category" -> <<"Category">>
    [] OTHER -> <<>>

\* a fragment with an unresolvable reference makes compile throw
CompileThrows(schema) == schema = "Broken"

\* the body lines of a declaration: one property line per reference, or a plain one
BodyLines(refs) ==
  IF refs = <<>> THEN << <<"id", "string">> >>
  ELSE [i \in 1..Len(refs) |-> <<"ref", refs[i]>>]

\* the named schemas reachable from refs, each once, in the order they are met
RECURSIVE AuxOrder(_, _)
AuxOrder(todo, done) ==
  IF todo = <<>> THEN done
  ELSE IF SetHas(done, Head(todo)) THEN AuxOrder(Tail(todo), done)
       ELSE AuxOrder(AuxRefs(Head(todo)) \o Tail(todo), Append(done, Head(todo)))

RECURSIVE AuxDeclarations(_, _)
AuxDeclarations(auxes, i) ==
  IF i > Len(auxes) THEN <<>>
  ELSE << <<"export", "interface", auxes[i]>> >> \o BodyLines(AuxRefs(auxes[i]))
       \o AuxDeclarations(auxes, i + 1)

\* the rendered source of a fragment that compiles
compile(schema, typeName) ==
  << <<"export", "interface", typeName>> >> \o BodyLines(SchemaRefs(schema))
  \o AuxDeclarations(AuxOrder(SchemaRefs(schema), <<>>), 1)

\* the synthesized query-parameter object: one property line per parameter
compileParams(queryParams, typeName) ==
  << <<"export", "interface", typeName>> >>
  \o [i \in 1..Len(queryParams) |-> <<queryParams[i].name, "string">>]

(***************************************************************************)
(* _generateOperationTypes (generator-parts.ts 25-169).                    *)
(***************************************************************************)
Null == ""

\* a warning comment followed by a fallback alias declaring the failed name
WarningLinesWithAlias(typeName) ==
  << <<"//", "Type", "generation", "failed", "for", typeName>>,
     <<"//", "Check", "the", "OpenAPI", "spec">>,
     <<"export", "type", typeName, "any">> >>

\* the two comment lines written in place of a type that failed to compile
WarningLines(typeName) ==
  << <<"//", "Type", "generation", "failed", "for", typeName>>,
     <<"//", "Check", "the", "OpenAPI", "spec">> >>

IsWarningFor(line, typeName) ==
  /\ Len(line) >= 6
  /\ line[1] = "//"
  /\ line[4] = "failed"
  /\ line[6] = typeName

\* typesString += tsType; generatedTypeNames.add(typeName)
Emitted(acc, f, typeName) ==
  [acc EXCEPT !.typesString = acc.typesString \o f.tsType,
              !.registry = SetAdd(f.seenNames, typeName),
              !.threw = FALSE]

\* try { compile; filterAndPrefixDeclarations; add } catch { warn }, for a name not yet reserved
CompileInto(acc, schemaThrows, rendered, typeName, schemaPrefix) ==
  IF schemaThrows
  THEN [acc EXCEPT !.typesString = acc.typesString \o WarningLines(typeName),
                   !.threw = TRUE]
  ELSE Emitted(acc, filterAndPrefixDeclarations(rendered, acc.registry, schemaPrefix), typeName)

\* a catch block that sets requestBodyFailed and leaves the name in place
RequestBodyCompiledKeepingName(c) ==
  IF c.threw THEN [c EXCEPT !.requestBodyFailed = TRUE] ELSE c

\* the catch block of the request body (lines 60-68)
RequestBodyCompiled(c) ==
  IF c.threw THEN [c EXCEPT !.requestBodyTypeName = Null, !.requestBodyFailed = TRUE] ELSE c

RequestBodyNamed(acc, op, typeName, schemaPrefix) ==
  IF ~SetHas(acc.registry, typeName)
  THEN RequestBodyCompiled(
         CompileInto([acc EXCEPT !.requestBodyTypeName = typeName],
                     CompileThrows(op.requestBody), compile(op.requestBody, typeName),
                     typeName, schemaPrefix))
  ELSE [acc EXCEPT !.requestBodyTypeName = typeName]

\* the request body of the operation (lines 47-70)
RequestBodyStep(acc, op, opPrefix, schemaPrefix) ==
  IF op.requestBody \in SchemaIds
  THEN RequestBodyNamed(acc, op, opPrefix \o op.stem \o "_Request", schemaPrefix)
  ELSE acc

\* const primarySuccessCode = method === "post" ? "201" : "200"
primarySuccessCode(method) == IF method = "post" THEN "201" ELSE "200"

\* a catch block that sets responseTypeFailed for any status, primary or not
ResponseCompiledAnyStatus(c, isPrimary) ==
  IF c.threw THEN [c EXCEPT !.responseTypeFailed = TRUE]
  ELSE IF isPrimary THEN [c EXCEPT !.primaryResponseTypeGenerated = TRUE] ELSE c

\* after the try/catch of one response (lines 85-104)
ResponseCompiled(c, isPrimary) ==
  IF ~isPrimary THEN c
  ELSE IF c.threw THEN [c EXCEPT !.responseTypeFailed = TRUE]
       ELSE [c EXCEPT !.primaryResponseTypeGenerated = TRUE]

\* if (isPrimary) primaryResponseTypeName = typeName (line 79)
ResponseNamed(acc, typeName, isPrimary) ==
  IF isPrimary THEN [acc EXCEPT !.primaryResponseTypeName = typeName] ELSE acc

\* a response with a JSON schema (lines 77-104)
ResponseWithSchema(acc, response, typeName, isPrimary, schemaPrefix) ==
  IF ~SetHas(acc.registry, typeName)
  THEN ResponseCompiled(
         CompileInto(ResponseNamed(acc, typeName, isPrimary), CompileThrows(response.body),
                     compile(response.body, typeName), typeName, schemaPrefix),
         isPrimary)
  ELSE IF isPrimary
       THEN [acc EXCEPT !.primaryResponseTypeName = typeName,
                        !.primaryResponseTypeGenerated = TRUE]
       ELSE acc

\* a 2xx response, primary or not (lines 75-116)
SuccessResponse(acc, response, stem, isPrimary, schemaPrefix) ==
  IF response.body \in SchemaIds
  THEN ResponseWithSchema(acc, response,
                          stem \o "_Response" \o (IF isPrimary THEN "" ELSE "_" \o response.code),
                          isPrimary, schemaPrefix)
  ELSE IF isPrimary /\ response.body = "noContent"
       THEN [acc EXCEPT !.primaryResponseTypeName = "void",
                        !.primaryResponseTypeGenerated = TRUE]
       ELSE IF isPrimary THEN [acc EXCEPT !.responseTypeFailed = TRUE] ELSE acc

\* one iteration of `for (const statusCode in operation.responses)` (lines 73-117)
ResponseStep(acc, op, response, opPrefix, schemaPrefix) ==
  IF StartsWith(response.code, "2")
  THEN SuccessResponse(acc, response, opPrefix \o op.stem,
                       response.code = primarySuccessCode(op.method), schemaPrefix)
  ELSE acc

RECURSIVE ResponseSteps(_, _, _, _, _)
ResponseSteps(acc, op, i, opPrefix, schemaPrefix) ==
  IF i > Len(op.responses) THEN acc
  ELSE ResponseSteps(ResponseStep(acc, op, op.responses[i], opPrefix, schemaPrefix),
                     op, i + 1, opPrefix, schemaPrefix)

\* the catch block of the parameters (lines 147-155)
ParametersCompiled(c) ==
  IF c.threw THEN [c EXCEPT !.parametersTypeName = Null, !.parametersTypeFailed = TRUE] ELSE c

ParametersNamed(acc, op, typeName, schemaPrefix) ==
  IF ~SetHas(acc.registry, typeName)
  THEN ParametersCompiled(
         CompileInto([acc EXCEPT !.parametersTypeName = typeName],
                     \E i \in 1..Len(op.queryParams) : op.queryParams[i].schema = "Broken",
                     compileParams(op.queryParams, typeName), typeName, schemaPrefix))
  ELSE [acc EXCEPT !.parametersTypeName = typeName]

\* the query parameters of the operation (lines 119-156)
ParametersStep(acc, op, opPrefix, schemaPrefix) ==
  IF Len(op.queryParams) > 0
  THEN ParametersNamed(acc, op, opPrefix \o op.stem \o "_Parameters", schemaPrefix)
  ELSE acc

\* the whole resolver: request body, then the responses, then the query parameters
_generateOperationTypes(op, registry, opPrefix, schemaPrefix) ==
  ParametersStep(
    ResponseSteps(
      RequestBodyStep([typesString |-> <<>>, registry |-> registry, threw |-> FALSE,
                       requestBodyTypeName |-> Null, requestBodyFailed |-> FALSE,
                       parametersTypeName |-> Null, parametersTypeFailed |-> FALSE,
                       primaryResponseTypeName |-> Null,
                       primaryResponseTypeGenerated |-> FALSE,
                       responseTypeFailed |-> FALSE],
                      op, opPrefix, schemaPrefix),
      op, 1, opPrefix, schemaPrefix),
    op, opPrefix, schemaPrefix)

(***************************************************************************)
(* _generateOperationTypes step by step.  The function is async: it runs   *)
(* on until it reaches `await compile(...)` (lines 55, 87, 140), where     *)
(* other work may run, and goes on when the compiler has settled.  A site  *)
(* is one place where it may compile: the request body, each response in   *)
(* turn, the query parameters.                                             *)
(***************************************************************************)
Site(kind, i) == [kind |-> kind, i |-> i]

\* an order of the sites with the query parameters ahead of the request body
SitesParametersFirst(op) ==
  <<Site("parameters", 0), Site("requestBody", 0)>>
  \o [i \in 1..Len(op.responses) |-> Site("response", i)]

\* the sites in the order of the function's statements (lines 47, 73, 119)
Sites(op) ==
  <<Site("requestBody", 0)>>
  \o [i \in 1..Len(op.responses) |-> Site("response", i)]
  \o <<Site("parameters", 0)>>

\* isPrimary of the response at a site
SiteIsPrimary(op, site) ==
  site.kind = "response" /\ op.responses[site.i].code = primarySuccessCode(op.method)

\* const typeName = ... (lines 51, 82, 136)
SiteTypeName(op, site, opPrefix) ==
  CASE site.kind = "requestBody" -> opPrefix \o op.stem \o "_Request"
    [] site.kind = "response" ->
         opPrefix \o op.stem \o "_Response"
         \o (IF SiteIsPrimary(op, site) THEN "" ELSE "_" \o op.responses[site.i].code)
    [] OTHER -> opPrefix \o op.stem \o "_Parameters"

\* the site has a schema to hand to the compiler (lines 48-50, 74-80, 124-135)
SiteHasSchema(op, site) ==
  CASE site.kind = "requestBody" -> op.requestBody \in SchemaIds
    [] site.kind = "response" ->
         /\ StartsWith(op.responses[site.i].code, "2")
         /\ op.responses[site.i].body \in SchemaIds
    [] OTHER -> Len(op.queryParams) > 0

\* if (!generatedTypeNames.has(typeName)) is passed: the function reaches its await
Suspends(acc, op, site, opPrefix) ==
  SiteHasSchema(op, site) /\ ~SetHas(acc.registry, SiteTypeName(op, site, opPrefix))

\* the compiler rejects the schema of the site
SiteThrows(op, site) ==
  CASE site.kind = "requestBody" -> CompileThrows(op.requestBody)
    [] site.kind = "response" -> CompileThrows(op.responses[site.i].body)
    [] OTHER -> \E i \in 1..Len(op.queryParams) : op.queryParams[i].schema = "Broken"

\* what the compiler renders for the site
SiteRendered(op, site, typeName) ==
  CASE site.kind = "requestBody" -> compile(op.requestBody, typeName)
    [] site.kind = "response" -> compile(op.responses[site.i].body, typeName)
    [] OTHER -> compileParams(op.queryParams, typeName)

\* the assignments ahead of the await (lines 52, 83, 137)
BeforeCompile(acc, op, site, typeName) ==
  CASE site.kind = "requestBody" -> [acc EXCEPT !.requestBodyTypeName = typeName]
    [] site.kind = "response" -> ResponseNamed(acc, typeName, SiteIsPrimary(op, site))
    [] OTHER -> [acc EXCEPT !.parametersTypeName = typeName]

\* the rest of the try block, or the catch block, once the compiler has settled
AfterCompile(c, op, site) ==
  CASE site.kind = "requestBody" -> RequestBodyCompiled(c)
    [] site.kind = "response" -> ResponseCompiled(c, SiteIsPrimary(op, site))
    [] OTHER -> ParametersCompiled(c)

\* the function goes on after its await, with the registry as it is by then
Resumed(acc, op, site, opPrefix, schemaPrefix) ==
  AfterCompile(
    CompileInto(BeforeCompile(acc, op, site, SiteTypeName(op, site, opPrefix)),
                SiteThrows(op, site),
                SiteRendered(op, site, SiteTypeName(op, site, opPrefix)),
                SiteTypeName(op, site, opPrefix), schemaPrefix),
    op, site)

\* a site the function passes without an await
Passed(acc, op, site, opPrefix, schemaPrefix) ==
  CASE site.kind = "requestBody" -> RequestBodyStep(acc, op, opPrefix, schemaPrefix)
    [] site.kind = "response" ->
         ResponseStep(acc, op, op.responses[site.i], opPrefix, schemaPrefix)
    [] OTHER -> ParametersStep(acc, op, opPrefix, schemaPrefix)

\* the local variables of a call as it starts (lines 34-42)
Locals(registry) ==
  [typesString |-> <<>>, registry |-> registry, threw |-> FALSE,
   requestBodyTypeName |-> Null, requestBodyFailed |-> FALSE,
   parametersTypeName |-> Null, parametersTypeFailed |-> FALSE,
   primaryResponseTypeName |-> Null,
   primaryResponseTypeGenerated |-> FALSE,
   responseTypeFailed |-> FALSE]

(***************************************************************************)
(* Identifier helpers (generator-helpers.ts).                              *)
(***************************************************************************)
LowerLetters == "abcdefghijklmnopqrstuvwxyz"

UpperLetters == "ABCDEFGHIJKLMNOPQRSTUVWXYZ"

DigitChars == "0123456789"

IsDigit(c) == IndexOf(DigitChars, c) > 0

\* [a-zA-Z0-9]
IsAlnum(c) == IndexOf(LowerLetters, c) > 0 \/ IndexOf(UpperLetters, c) > 0 \/ IsDigit(c)

\* String.prototype.toUpperCase of one character
ToUpperChar(c) ==
  LET i == IndexOf(LowerLetters, c)
  IN  IF i > 0 THEN SubSeq(UpperLetters, i, i) ELSE c

\* String.prototype.toLowerCase of one character
ToLowerChar(c) ==
  LET i == IndexOf(UpperLetters, c)
  IN  IF i > 0 THEN SubSeq(LowerLetters, i, i) ELSE c

CharAt(s, i) == SubSeq(s, i, i)

\* the part of s from the first to the last of the kept positions
Between(s, keep) ==
  IF keep = {} THEN ""
  ELSE SubSeq(s, CHOOSE i \in keep : \A j \in keep : i <= j,
                 CHOOSE i \in keep : \A j \in keep : i >= j)

\* str.replace(/^[^a-zA-Z0-9]+|[^a-zA-Z0-9]+$/g, ""): trim the non-alphanumeric ends
TrimNonAlnum(s) == Between(s, { i \in 1..Len(s) : IsAlnum(CharAt(s, i)) })

\* str.replace(/[^a-zA-Z0-9_]+/g, "_"): every run of other characters becomes one underscore
RECURSIVE CollapseSeparators(_, _)
CollapseSeparators(s, i) ==
  IF i > Len(s) THEN ""
  ELSE LET c == CharAt(s, i)
           word == IsAlnum(c) \/ c = "_"
           prevWord == i > 1 /\ (IsAlnum(CharAt(s, i - 1)) \/ CharAt(s, i - 1) = "_")
       IN  (IF word THEN c ELSE IF i = 1 \/ prevWord THEN "_" ELSE "")
           \o CollapseSeparators(s, i + 1)

\* if (/^[0-9]/.test(sanitized) || sanitized === "") sanitized = "_" + sanitized
GuardLeadingDigit(cleaned) ==
  IF cleaned = "" \/ IsDigit(CharAt(cleaned, 1)) THEN "_" \o cleaned ELSE cleaned

toTsIdentifier(str) ==
  IF str = "" THEN "_" ELSE GuardLeadingDigit(CollapseSeparators(TrimNonAlnum(str), 1))

\* split on every non-alphanumeric character, upper-case each part's first character, join
RECURSIVE PascalFrom(_, _)
PascalFrom(s, i) ==
  IF i > Len(s) THEN ""
  ELSE LET c == CharAt(s, i)
           first == i = 1 \/ ~IsAlnum(CharAt(s, i - 1))
       IN  (IF ~IsAlnum(c) THEN "" ELSE IF first THEN ToUpperChar(c) ELSE c)
           \o PascalFrom(s, i + 1)

toPascalCase(str) == IF str = "" THEN "Type" ELSE PascalFrom(str, 1)

\* pathParams.map((p) => toTsIdentifier(p.name))
toTsIdentifiers(names) == [i \in 1..Len(names) |-> toTsIdentifier(names[i])]

\* String.prototype.split on a one-character separator, from position i on
RECURSIVE SplitFrom(_, _, _)
SplitFrom(s, sep, i) ==
  IF IndexOf(SubSeq(s, i, Len(s)), sep) = 0 THEN <<SubSeq(s, i, Len(s))>>
  ELSE <<SubSeq(s, i, i + IndexOf(SubSeq(s, i, Len(s)), sep) - 2)>>
       \o SplitFrom(s, sep, i + IndexOf(SubSeq(s, i, Len(s)), sep))

\* the length of the run of digits of s that starts at position i
RECURSIVE DigitRun(_, _)
DigitRun(s, i) ==
  IF i <= Len(s) /\ IsDigit(CharAt(s, i)) THEN 1 + DigitRun(s, i + 1) ELSE 0

\* path.replace(/^\/(api|v\d+)\/|^\//, ""): drop /api/, /v<digits>/ or the leading slash
StripCommonPrefix(path) ==
  IF StartsWith(path, "/api/") THEN SubSeq(path, 6, Len(path))
  ELSE IF /\ StartsWith(path, "/v")
          /\ DigitRun(path, 3) > 0
          /\ CharAt(path, 3 + DigitRun(path, 3)) = "/"
       THEN SubSeq(path, 4 + DigitRun(path, 3), Len(path))
       ELSE IF StartsWith(path, "/") THEN SubSeq(path, 2, Len(path)) ELSE path

\* segments.map((part) => toPascalCase(part)).join("")
RECURSIVE PascalJoin(_, _)
PascalJoin(segments, i) ==
  IF i > Len(segments) THEN ""
  ELSE toPascalCase(segments[i]) \o PascalJoin(segments, i + 1)

\* .filter((seg) => !seg.startsWith("{"))
IsPlainSegment(seg) == ~StartsWith(seg, "{")

\* the fallback and the join of getPathBasedBaseName, on the kept segments
BaseNameOf(segments) ==
  IF Len(segments) = 0 \/ (\A i \in 1..Len(segments) : segments[i] = "")
  THEN "RootOperation"
  ELSE PascalJoin(segments, 1)

\* getPathBasedBaseName as generator-helpers.ts has it: parameter segments are dropped
getPathBasedBaseName(path) ==
  BaseNameOf(SelectSeq(SplitFrom(StripCommonPrefix(path), "/", 1), IsPlainSegment))

\* one segment of the revised helper: {paramName} becomes ByParamName
RevisedSegment(seg) ==
  IF StartsWith(seg, "{") /\ CharAt(seg, Len(seg)) = "}"
  THEN "By" \o toPascalCase(SubSeq(seg, 2, Len(seg) - 1))
  ELSE toPascalCase(seg)

RECURSIVE RevisedJoin(_, _)
RevisedJoin(segments, i) ==
  IF i > Len(segments) THEN ""
  ELSE RevisedSegment(segments[i]) \o RevisedJoin(segments, i + 1)

\* if (!joined) return "RootOperation"
RevisedFallback(joined) == IF joined = "" THEN "RootOperation" ELSE joined

\* getPathBasedBaseName as the copy of the helpers kept in dummyGetToken.ts has
\* it ("Revised to include parameter info")
getPathBasedBaseNameRevised(path) ==
  RevisedFallback(RevisedJoin(SplitFrom(StripCommonPrefix(path), "/", 1), 1))

\* the repository holds both revisions of the helper
HelperRevisions == {"generator-helpers.ts", "dummyGetToken.ts"}

(***************************************************************************)
(* _generateFunctionFactory (generator-parts.ts 172-317): the accessor     *)
(* factory of one operation, as the parts of the text it emits.            *)
(***************************************************************************)
\* a generic default that names a declaration: `${tagImportName}.${name}`
Qualified(tagImportName, name) == tagImportName \o "." \o name

\* a response default that names the primary type whether or not it was generated
defaultResponseTypeIgnoringGenerated(t, tagImportName) ==
  IF t.primaryResponseTypeName = "void" THEN "void"
  ELSE IF t.primaryResponseTypeName # Null
       THEN Qualified(tagImportName, t.primaryResponseTypeName)
       ELSE "any"

\* the response default shared by both factories (lines 200-207 and 348-355)
defaultResponseType(t, tagImportName) ==
  IF t.primaryResponseTypeName = "void" THEN "void"
  ELSE IF t.primaryResponseTypeName # Null /\ t.primaryResponseTypeGenerated
       THEN Qualified(tagImportName, t.primaryResponseTypeName)
       ELSE "any"

\* const hasRequestBody = !!operation.requestBody
hasRequestBody(op) == op.requestBody # "absent"

defaultRequestBodyType(op, t, tagImportName) ==
  IF t.requestBodyTypeName # Null THEN Qualified(tagImportName, t.requestBodyTypeName)
  ELSE IF hasRequestBody(op) THEN "any" ELSE "never"

defaultQueryParamsType(op, t, tagImportName) ==
  IF t.parametersTypeName # Null THEN Qualified(tagImportName, t.parametersTypeName)
  ELSE "never"

\* a parameter list with the query parameters ahead of the request body
innerFuncParamsListQueryFirst(op, t) ==
  toTsIdentifiers(op.pathParams)
  \o (IF t.parametersTypeName # Null THEN <<"params">> ELSE <<>>)
  \o (IF hasRequestBody(op) THEN <<"data">> ELSE <<>>)
  \o <<"callSpecificOptions", "customFlags">>

\* a parameter list that has `data` and `params` whatever the operation declares
innerFuncParamsListAlwaysBoth(op, t) ==
  toTsIdentifiers(op.pathParams) \o <<"data", "params", "callSpecificOptions", "customFlags">>

\* the identifiers of the callable's parameters, in order (lines 226-252)
innerFuncParamsList(op, t) ==
  toTsIdentifiers(op.pathParams)
  \o (IF hasRequestBody(op) THEN <<"data">> ELSE <<>>)
  \o (IF t.parametersTypeName # Null THEN <<"params">> ELSE <<>>)
  \o <<"callSpecificOptions", "customFlags">>

\* the declared type of each of the callable's parameters, in the same order:
\* `${toTsIdentifier(p.name)}: string`, `data: TRequestBody`, `params: TQueryParams`,
\* `callSpecificOptions?: Partial<Omit<...>>`, `customFlags?: Record<string, any>`
innerFuncParamsTypes(op, t) ==
  [i \in 1..Len(op.pathParams) |-> "string"]
  \o (IF hasRequestBody(op) THEN <<"TRequestBody">> ELSE <<>>)
  \o (IF t.parametersTypeName # Null THEN <<"TQueryParams">> ELSE <<>>)
  \o <<"Partial<Omit<SGSyncRequesterOptions>>", "Record<string, any>">>

\* the names between braces that /{([^}]+)}/g finds in s from position i on
RECURSIVE Placeholders(_, _)
Placeholders(s, i) ==
  LET open == IndexOf(SubSeq(s, i, Len(s)), "{")
      close == IndexOf(SubSeq(s, i + open, Len(s)), "}")
  IN  IF open = 0 \/ close = 0 THEN <<>>
      ELSE IF close = 1 THEN Placeholders(s, i + open)
           ELSE <<SubSeq(s, i + open, i + open + close - 2)>>
                \o Placeholders(s, i + open + close)

\* the identifiers interpolated into the request URL (lines 257-260): every
\* {placeholder} of the path becomes ${toTsIdentifier(placeholder)}
urlPath(processedPath) == toTsIdentifiers(Placeholders(processedPath, 1))

\* the keys of the request descriptor handed to requester.request (lines 296-312)
requestDescriptorKeys(op, t) ==
  <<"method", "url", "authRequire">>
  \o (IF hasRequestBody(op) THEN <<"data">> ELSE <<>>)
  \o (IF t.parametersTypeName # Null THEN <<"params">> ELSE <<>>)
  \o <<"context">>

\* the warning comments placed above the factory (lines 262-278)
factoryWarnings(t) ==
  (IF t.requestBodyFailed THEN <<"Request Body type generation failed">> ELSE <<>>)
  \o (IF t.parametersTypeFailed THEN <<"Parameters type generation failed">> ELSE <<>>)
  \o (IF t.responseTypeFailed
         \/ (~t.primaryResponseTypeGenerated /\ t.primaryResponseTypeName # "void")
      THEN <<"Response type generation failed or schema missing">> ELSE <<>>)

_generateFunctionFactory(op, t, tagImportName) ==
  [TResponse |-> defaultResponseType(t, tagImportName),
   TRequestBody |-> defaultRequestBodyType(op, t, tagImportName),
   TQueryParams |-> defaultQueryParamsType(op, t, tagImportName),
   params |-> innerFuncParamsList(op, t),
   paramTypes |-> innerFuncParamsTypes(op, t),
   descriptor |-> requestDescriptorKeys(op, t),
   url |-> urlPath(op.path),
   warnings |-> factoryWarnings(t),
   returns |-> IF defaultResponseType(t, tagImportName) = "void"
               THEN "undefined" ELSE "response.data"]

(***************************************************************************)
(* _generateHookFactory (generator-parts.ts 320-560): the subscription     *)
(* factory of one operation.                                               *)
(***************************************************************************)
\* ["POST", "PUT", "DELETE", "PATCH"].includes(method.toUpperCase())
isMutation(op) == op.method \in {"post", "put", "delete", "patch"}

\* the variables type of a write-shaped subscription (lines 371-380)
defaultMutationTVariables(op, t, tagImportName) ==
  IF hasRequestBody(op) /\ t.parametersTypeName # Null
  THEN defaultRequestBodyType(op, t, tagImportName)
  ELSE IF hasRequestBody(op) THEN defaultRequestBodyType(op, t, tagImportName)
       ELSE IF t.parametersTypeName # Null THEN defaultQueryParamsType(op, t, tagImportName)
            ELSE "void"

\* the generics of the factory's callable, each with its default (lines 404-411, 480-484)
hookGenerics(op, t, tagImportName) ==
  IF isMutation(op)
  THEN << <<"TData", defaultResponseType(t, tagImportName)>>,
          <<"TError", "Error">>,
          <<"TVariables", defaultMutationTVariables(op, t, tagImportName)>> >>
       \o (IF hasRequestBody(op) /\ t.parametersTypeName # Null
           THEN << <<"TQueryParams", defaultQueryParamsType(op, t, tagImportName)>> >>
           ELSE <<>>)
  ELSE << <<"TQueryData", defaultResponseType(t, tagImportName)>>,
          <<"TError", "Error">> >>
       \o (IF t.parametersTypeName # Null
           THEN << <<"TQueryParams", defaultQueryParamsType(op, t, tagImportName)>> >>
           ELSE <<>>)

\* the parameters of the factory's callable (lines 413-427, 513-525)
hookParams(op, t) ==
  toTsIdentifiers(op.pathParams)
  \o (IF isMutation(op)
      THEN (IF hasRequestBody(op) /\ t.parametersTypeName # Null
            THEN <<"queryParams">> ELSE <<>>)
           \o <<"mutationOptions", "customFlags">>
      ELSE (IF t.parametersTypeName # Null THEN <<"queryParams">> ELSE <<>>)
           \o <<"queryOptions", "customFlags">>)

\* the positional arguments handed to the accessor callable (lines 438-469, 527-535)
sgFunctionCallArgs(op, t) ==
  toTsIdentifiers(op.pathParams)
  \o (IF isMutation(op)
      THEN (IF hasRequestBody(op) THEN <<"variables">> ELSE <<>>)
           \o (IF t.parametersTypeName # Null
               THEN (IF hasRequestBody(op) THEN <<"queryParams">> ELSE <<"variables">>)
               ELSE <<>>)
      ELSE (IF t.parametersTypeName # Null THEN <<"queryParams">> ELSE <<>>))
  \o <<"undefined", "customFlags">>

\* the runtime cache key of a read-shaped subscription (lines 401, 505-510)
runtimeQueryKeyParts(op, t, sanitizedTagName, endpointBaseName) ==
  <<"'" \o sanitizedTagName \o "'", "'" \o endpointBaseName \o "'">>
  \o toTsIdentifiers(op.pathParams)
  \o (IF t.parametersTypeName # Null THEN <<"queryParams">> ELSE <<>>)

_generateHookFactory(op, t, tagImportName, sanitizedTagName, endpointBaseName) ==
  [shape |-> IF isMutation(op) THEN "useMutation" ELSE "useQuery",
   generics |-> hookGenerics(op, t, tagImportName),
   params |-> hookParams(op, t),
   fnParams |-> IF isMutation(op) /\ defaultMutationTVariables(op, t, tagImportName) # "void"
                THEN <<"variables">> ELSE <<>>,
   callArgs |-> sgFunctionCallArgs(op, t),
   queryKey |-> IF isMutation(op) THEN <<>>
                ELSE runtimeQueryKeyParts(op, t, sanitizedTagName, endpointBaseName)]

(***************************************************************************)
(* The operations of the input specification.  requestBody is "absent",    *)
(* "noJson" (declared without an application/json schema) or a fragment;   *)
(* a response body is "noContent" (no content at all), "noJson" or a       *)
(* fragment; responses are listed in the order `for ... in` visits the     *)
(* status codes (ascending); stem is the operation's TypeBaseName.         *)
(* pathParams are the `in: path` entries of the operation's own parameters *)
(* (generator-parts.ts 193-196); a parameter declared on the path item is  *)
(* not among them, the operation object being handed on as the document    *)
(* has it (index.ts 87-91).                                                *)
(***************************************************************************)
Op(method, path, pathParams, tag, stem, requestBody, responses, queryParams) ==
  [method |-> method, path |-> path, pathParams |-> pathParams, tag |-> tag,
   stem |-> stem, requestBody |-> requestBody, responses |-> responses,
   queryParams |-> queryParams]

Resp(code, body) == [code |-> code, body |-> body]

QueryParam(name, schema) == [name |-> name, schema |-> schema]

Operations ==
  { Op("get", "/pets/{id}", <<"id">>, "Pets", "GetPetsById", "absent",
       <<Resp("200", "Plain"), Resp("404", "Plain")>>, <<>>),
    Op("get", "/pets", <<>>, "Pets", "GetPets", "absent",
       <<Resp("200", "WithPet")>>, <<QueryParam("limit", "Plain")>>),
    Op("get", "/api/pets", <<>>, "Pets", "GetPets", "absent",
       <<Resp("200", "Plain")>>, <<QueryParam("limit", "Broken")>>),
    Op("post", "/pets", <<>>, "Pets", "PostPets", "WithPet",
       <<Resp("200", "Plain"), Resp("201", "WithPet")>>, <<QueryParam("dryRun", "Plain")>>),
    Op("put", "/pets/{pet-id}", <<"pet-id">>, "Pets", "PutPetsByPetId", "Broken",
       <<Resp("200", "Plain")>>, <<>>),
    Op("delete", "/pets/{id}", <<"id">>, "Pets", "DeletePetsById", "absent",
       <<Resp("200", "noContent")>>, <<QueryParam("force", "Plain")>>),
    Op("patch", "/pets/{id}", <<"id">>, "Pets", "PatchPetsById", "noJson",
       <<Resp("204", "noContent")>>, <<>>),
    Op("get", "/pets/search", <<>>, "Pets", "GetPetsSearch", "absent",
       <<Resp("200", "Plain")>>, <<QueryParam("q", "Broken")>>),
    Op("get", "/store/inventory", <<>>, "Store", "GetStoreInventory", "absent",
       <<Resp("200", "WithPet")>>, <<>>),
    Op("get", "/store/orders", <<>>, "Store", "GetStoreOrders", "absent",
       <<Resp("200", "Broken")>>, <<>>),
    Op("get", "/store/report", <<>>, "Store", "GetStoreReport", "absent",
       <<Resp("200", "noJson")>>, <<>>),
    Op("get", "/store/legacy", <<>>, "Store", "GetStoreLegacy", "absent",
       <<Resp("200", "WithLegacy"), Resp("202", "Broken")>>, <<>>),
    Op("get", "/store/categories", <<>>, "Store", "GetStoreCategories", "absent",
       <<Resp("200", "WithCategory")>>, <<>>),
    Op("post", "/store/orders", <<>>, "Store", "PostStoreOrders", "Plain",
       <<Resp("201", "Broken")>>, <<QueryParam("coupon", "Broken")>>),
    Op("post", "/store/refunds", <<>>, "Store", "PostStoreRefunds", "absent",
       <<Resp("200", "Broken"), Resp("201", "Plain")>>, <<>>),
    Op("put", "/pets/{id}/photos/{photoId}", <<"id", "photoId">>, "Pets",
       "PutPetsByIdPhotosByPhotoId", "Plain",
       <<Resp("200", "Plain")>>, <<QueryParam("size", "Plain")>>),
    Op("get", "/store/orders/{orderId}", <<>>, "Store", "GetStoreOrdersByOrderId", "Plain",
       <<Resp("200", "Plain")>>, <<QueryParam("expand", "Plain")>>) }

(***************************************************************************)
(* The resolved configuration the generator reads (config.ts; the prefixes  *)
(* at generator-parts.ts 44-45).                                            *)
(***************************************************************************)
Configs ==
  { [operationTypePrefix |-> "", schemaTypePrefix |-> ""],
    [operationTypePrefix |-> "api", schemaTypePrefix |-> "Gen_"] }

\* const opPrefix = operationTypePrefix ? `${toPascalCase(operationTypePrefix)}_` : ""
opPrefix(cfg) ==
  IF cfg.operationTypePrefix # "" THEN toPascalCase(cfg.operationTypePrefix) \o "_" ELSE ""

\* const schemaPrefix = schemaTypePrefix || "SSGEN_"
schemaPrefix(cfg) == IF cfg.schemaTypePrefix # "" THEN cfg.schemaTypePrefix ELSE "SSGEN_"

(***************************************************************************)
(* State of one generation run.                                            *)
(***************************************************************************)
VARIABLES
  packageConfig,        \* the resolved configuration of the run
  generatedTypeNames,   \* the name registry shared by the run, in insertion order
  generated,            \* per processed operation: the operation, its types and factories
  subscription,         \* the last settled call of a generated subscription, or Idle
  helpers,              \* the revision of the naming helpers the generator is built with
  call,                 \* a call of the default requester's request function
  tasks,                \* the calls of _generateOperationTypes that have not returned
  document,             \* the operations of the input specification, as they are met
  operationsByTag,      \* the groups of the current run, in the order of their keys
  console,              \* what the grouping of the current run has warned about
  previous,             \* the file system as the run before left it, if nothing came between
  trace,                \* the writes of the current run, in order
  userConfig,           \* what the caller configured, and the entry point used
  files,                \* the file system: path -> content
  pc,                   \* where the current run of runGenerator stands
  resolved,             \* the resolved configuration of the current run
  runs,                 \* the number of runs started
  start,                \* the file system as the current run found it
  written               \* the paths the current run has written

genVars == <<packageConfig, generatedTypeNames, generated, subscription, helpers, call, tasks>>

runVars == <<userConfig, files, pc, resolved, runs, start, written,
             document, operationsByTag, console, previous, trace>>

vars == <<packageConfig, generatedTypeNames, generated, subscription, helpers, call, tasks,
          userConfig, files, pc, resolved, runs, start, written,
          document, operationsByTag, console, previous, trace>>

\* tagName.toLowerCase().replace(/\s+|\//g, "-") (index.ts 101)
RECURSIVE SanitizeFrom(_, _)
SanitizeFrom(s, i) ==
  IF i > Len(s) THEN ""
  ELSE LET c == CharAt(s, i)
           space == c = " "
           prevSpace == i > 1 /\ CharAt(s, i - 1) = " "
       IN  (IF space THEN (IF prevSpace THEN "" ELSE "-")
            ELSE IF c = "/" THEN "-" ELSE ToLowerChar(c))
           \o SanitizeFrom(s, i + 1)

sanitizedTagName(tagName) == SanitizeFrom(tagName, 1)

\* the import alias under which a group's factories name its declarations
tagImportName(tagName) == toPascalCase(tagName) \o "Types"

\* the endpoint base name of an operation's subscription: derived from its path
endpointBaseName(path) ==
  IF helpers = "generator-helpers.ts" THEN getPathBasedBaseName(path)
  ELSE getPathBasedBaseNameRevised(path)

\* groups are processed one after another: an operation either continues the
\* group being processed or opens a group not processed before
InGroupOrder(op) ==
  IF generated = <<>> THEN TRUE
  ELSE IF generated[Len(generated)].op.tag = op.tag THEN TRUE
       ELSE \A i \in 1..Len(generated) : generated[i].op.tag # op.tag

(***************************************************************************)
(* The emitted code at run time.  The injected transport settles a request *)
(* in one of three ways: an envelope with data, an envelope flagged        *)
(* isError (requester-types.ts 23-36), or a rejection.                     *)
(***************************************************************************)
Idle == [k |-> 0]

TransportOutcomes ==
  { [settled |-> "fulfilled", isError |-> FALSE, data |-> "payload"],
    [settled |-> "fulfilled", isError |-> TRUE,  data |-> "errorBody"],
    [settled |-> "rejected",  isError |-> FALSE, data |-> "reason"] }

\* an accessor body that returns the payload whatever the response default is
sgFunctionAlwaysData(fn, outcome) ==
  IF outcome.settled = "rejected"
  THEN [settled |-> "rejected", value |-> outcome.data]
  ELSE [settled |-> "fulfilled", value |-> outcome.data]

\* the accessor's async body (generator-parts.ts 295-314): await the
\* transport, then return response.data, or undefined for a void response
sgFunction(fn, outcome) ==
  IF outcome.settled = "rejected"
  THEN [settled |-> "rejected", value |-> outcome.data]
  ELSE [settled |-> "fulfilled",
        value |-> IF fn.returns = "undefined" THEN "undefined" ELSE outcome.data]

\* mutationFn (471-478) and queryFn (538-550): both return sgFunction(...)
mutationFn(e, outcome) == sgFunction(e.fn, outcome)

queryFn(e, outcome) == sgFunction(e.fn, outcome)

\* the subscription of the k-th generated operation runs once
InvokeSubscription(k, outcome) ==
  /\ k \in 1..Len(generated)
  /\ LET e == generated[k]
         r == IF e.hook.shape = "useMutation" THEN mutationFn(e, outcome)
              ELSE queryFn(e, outcome)
     IN  subscription' = [k |-> k, shape |-> e.hook.shape, transport |-> outcome,
                          status |-> IF r.settled = "rejected" THEN "error" ELSE "success",
                          data |-> r.value]
  /\ UNCHANGED <<packageConfig, generatedTypeNames, generated, helpers, call, tasks>>
  /\ UNCHANGED runVars

\* what the run keeps of one processed operation: its types and both factories
Entry(op, before, t, tagImport, baseName) ==
  [op |-> op,
   before |-> before,
   types |-> t,
   fn |-> _generateFunctionFactory(op, t, tagImport),
   hook |-> _generateHookFactory(op, t, tagImport, sanitizedTagName(op.tag), baseName)]

\* one operation of a tag group: resolve its types, then emit both factories
GenerateOperation(op) ==
  /\ subscription = Idle
  /\ Len(generated) < MaxOps
  /\ \A i \in 1..Len(generated) : generated[i].op # op
  /\ InGroupOrder(op)
  /\ generated' = Append(generated,
       Entry(op, generatedTypeNames,
             _generateOperationTypes(op, generatedTypeNames, opPrefix(packageConfig),
                                     schemaPrefix(packageConfig)),
             tagImportName(op.tag), endpointBaseName(op.path)))
  /\ generatedTypeNames' = generated'[Len(generated')].types.registry
  /\ UNCHANGED <<packageConfig, subscription, helpers, call, tasks>>
  /\ UNCHANGED runVars

(***************************************************************************)
(* The same resolver, one step at a time.  A call occupies a slot from the *)
(* moment it is made until it returns; the registry it reads and writes is *)
(* the one of the run, as it is at the moment of each step.                *)
(***************************************************************************)
Slots == {1, 2}

NoTask == [at |-> "none"]

\* the locals of a call, reading the registry of the run
LocalsOf(t) == [t.locals EXCEPT !.registry = generatedTypeNames]

\* the site a call stands at
SiteOf(t) == Sites(t.op)[t.site]

\* _generateOperationTypes(opInfo, ...) is called
Called(c, op) ==
  /\ tasks[c].at = "none"
  /\ tasks' = [tasks EXCEPT ![c] = [at |-> "running", op |-> op,
                                    before |-> generatedTypeNames,
                                    locals |-> Locals(generatedTypeNames),
                                    site |-> 1, awaiting |-> FALSE, compiled |-> <<>>]]
  /\ UNCHANGED <<packageConfig, generatedTypeNames, generated, subscription, helpers, call>>

\* the call has passed a site: its locals and the registry are as r has them
PassedWith(c, r) ==
  /\ tasks' = [tasks EXCEPT ![c].locals = r, ![c].site = @ + 1, ![c].awaiting = FALSE]
  /\ generatedTypeNames' = r.registry

\* the call runs on to its next site: it either reaches `await compile(...)`
\* there or passes the site without an await
RunsOn(c) ==
  /\ tasks[c].at = "running"
  /\ ~tasks[c].awaiting
  /\ tasks[c].site <= Len(Sites(tasks[c].op))
  /\ IF Suspends(LocalsOf(tasks[c]), tasks[c].op, SiteOf(tasks[c]), opPrefix(packageConfig))
     THEN /\ tasks' = [tasks EXCEPT ![c].awaiting = TRUE,
                                    ![c].compiled = Append(@, SiteOf(tasks[c]))]
          /\ UNCHANGED generatedTypeNames
     ELSE PassedWith(c, Passed(LocalsOf(tasks[c]), tasks[c].op, SiteOf(tasks[c]),
                               opPrefix(packageConfig), schemaPrefix(packageConfig)))
  /\ UNCHANGED <<packageConfig, generated, subscription, helpers, call>>

\* the compiler settles and the call goes on behind its await
compileSettles(c) ==
  /\ tasks[c].at = "running"
  /\ tasks[c].awaiting
  /\ PassedWith(c, Resumed(LocalsOf(tasks[c]), tasks[c].op, SiteOf(tasks[c]),
                           opPrefix(packageConfig), schemaPrefix(packageConfig)))
  /\ UNCHANGED <<packageConfig, generated, subscription, helpers, call>>

\* the call returns its result (lines 159-168) and both factories are emitted
Returns(c) ==
  /\ tasks[c].at = "running"
  /\ ~tasks[c].awaiting
  /\ tasks[c].site > Len(Sites(tasks[c].op))
  /\ generated' = Append(generated,
       Entry(tasks[c].op, tasks[c].before, LocalsOf(tasks[c]),
             tagImportName(tasks[c].op.tag), endpointBaseName(tasks[c].op.path)))
  /\ tasks' = [tasks EXCEPT ![c] = NoTask]
  /\ UNCHANGED <<packageConfig, generatedTypeNames, subscription, helpers, call>>

(***************************************************************************)
(* Runs of the generator over a file system: the entry points (cli.ts main *)
(* and loadAndResolveConfig, or a direct call of runGenerator) resolve the *)
(* configuration; runGenerator (index.ts 30-295) then writes each group's  *)
(* bundle, the scaffold and runs the formatter.                            *)
(***************************************************************************)
MaxRuns == 2

\* an operation object of the document, with its `tags`
Tagged(op, tags) == [op |-> op, tags |-> tags]

\* the operations a document is made of.  None of the tags is an integer-like
\* key, so `for (const tagName in operationsByTag)` visits the groups in the
\* order they were created.
DocumentOperations ==
  { Tagged(Op("get", "/pets", <<>>, "", "GetPets", "absent",
              <<Resp("200", "WithPet")>>, <<>>), <<"Pets">>),
    Tagged(Op("post", "/pets", <<>>, "", "PostPets", "WithPet",
              <<Resp("201", "Plain")>>, <<>>), <<"Pets", "Store">>),
    Tagged(Op("get", "/store/inventory", <<>>, "", "GetStoreInventory", "absent",
              <<Resp("200", "WithPet")>>, <<QueryParam("limit", "Plain")>>), <<"Store">>),
    Tagged(Op("get", "/pets/{id}", <<"id">>, "", "GetPetsById", "absent",
              <<Resp("200", "Plain")>>, <<>>), <<"pets">>),
    Tagged(Op("patch", "/pets/{id}", <<"id">>, "", "PatchPetsById", "noJson",
              <<Resp("204", "noContent")>>, <<>>), <<>>),
    Tagged(Op("get", "/store/report", <<>>, "", "GetStoreReport", "absent",
              <<Resp("200", "noJson")>>, <<>>), <<"constructor">>) }

\* a document holds an operation (a method of a path) once
Documents ==
  { d \in UNION { [1..n -> DocumentOperations] : n \in 1..MaxOps } :
      \A i \in 1..Len(d) : \A j \in 1..Len(d) : i # j => d[i] # d[j] }

PetStore ==
  << Tagged(Op("get", "/pets", <<>>, "", "GetPets", "absent",
               <<Resp("200", "WithPet")>>, <<>>), <<"Pets">>),
     Tagged(Op("get", "/store/inventory", <<>>, "", "GetStoreInventory", "absent",
               <<Resp("200", "WithPet")>>, <<QueryParam("limit", "Plain")>>), <<"Store">>) >>

\* the first tags of the operations: the keys a run can group under
FirstTags == { d.tags[1] : d \in { x \in DocumentOperations : x.tags # <<>> } }

\* what `{}` inherits: a lookup of one of these keys on an object that does
\* not hold it itself yields the member of Object.prototype
ObjectPrototype ==
  {"constructor", "__proto__", "hasOwnProperty", "isPrototypeOf", "propertyIsEnumerable",
   "toLocaleString", "toString", "valueOf"}

\* the keys of operationsByTag, in the order `for ... in` visits them
Tags == [g \in 1..Len(operationsByTag) |-> operationsByTag[g].tagName]

\* the object holds the key itself
hasOwn(byTag, tagName) == \E g \in 1..Len(byTag) : byTag[g].tagName = tagName

\* operationsByTag[tagName]: the group's array, an inherited member, or undefined
Lookup(byTag, tagName) ==
  IF hasOwn(byTag, tagName) THEN "array"
  ELSE IF tagName \in ObjectPrototype THEN "inherited" ELSE "undefined"

\* if (!operationsByTag[tagName]) operationsByTag[tagName] = []; ...push(info)
Pushed(byTag, tagName, info) ==
  IF hasOwn(byTag, tagName)
  THEN [g \in 1..Len(byTag) |->
          IF byTag[g].tagName = tagName
          THEN [byTag[g] EXCEPT !.operations = Append(@, info)]
          ELSE byTag[g]]
  ELSE Append(byTag, [tagName |-> tagName, operations |-> <<info>>])

\* console.warn(`Operation ${method.toUpperCase()} ${pathKey} has no tags, skipping.`)
NoTagsWarning(op) == <<"Operation", op.method, op.path, "has", "no", "tags,", "skipping.">>

CallerConfig(entry, useDefault, scaffold, token, prettier, hooks, filePath) ==
  [entry |-> entry, useDefaultRequester |-> useDefault,
   scaffoldRequesterAdapter |-> scaffold,
   getTokenModulePath |-> token, formatWithPrettier |-> prettier,
   generateHooks |-> hooks, filePath |-> filePath]

\* "unset" stands for an option the caller left out
CallerConfigs ==
  { CallerConfig(entry, useDefault, scaffold, token, prettier, TRUE, filePath) :
      entry \in {"cli", "loadAndResolveConfig", "runGenerator"},
      useDefault \in BOOLEAN,
      scaffold \in {"unset", "true", "false"},
      token \in {"", "./auth"},
      prettier \in BOOLEAN,
      filePath \in {"./sg-requester.ts", "/abs/requester.ts"} }
  \cup
  { CallerConfig("cli", FALSE, "unset", "", FALSE, FALSE, "./sg-requester.ts") }

\* the configuration under which the runs are given every document
ScaffoldingCaller ==
  CallerConfig("loadAndResolveConfig", FALSE, "unset", "", TRUE, TRUE, "./sg-requester.ts")

Unresolved == [ok |-> FALSE]

Resolved(u, scaffoldRequesterAdapter) ==
  [ok |-> TRUE, useDefaultRequester |-> u.useDefaultRequester,
   scaffoldRequesterAdapter |-> scaffoldRequesterAdapter,
   getTokenModulePath |-> u.getTokenModulePath,
   formatWithPrettier |-> u.formatWithPrettier,
   generateHooks |-> u.generateHooks, filePath |-> u.filePath]

\* cli.ts main (195-279): the resolved configuration it hands to runGenerator
\* carries no scaffoldRequesterAdapter; a default requester without a token
\* module path ends the process before runGenerator is called
main(u) ==
  IF u.useDefaultRequester /\ u.getTokenModulePath = "" THEN Unresolved
  ELSE Resolved(u, "undefined")

\* loadAndResolveConfig: scaffoldRequesterAdapter ?? true; throws on a default
\* requester without a token module path
loadAndResolveConfig(u) ==
  IF u.useDefaultRequester /\ u.getTokenModulePath = "" THEN Unresolved
  ELSE Resolved(u, IF u.scaffoldRequesterAdapter = "unset" THEN "true"
                   ELSE u.scaffoldRequesterAdapter)

\* a direct call of runGenerator takes the caller's object as it is
direct(u) ==
  Resolved(u, IF u.scaffoldRequesterAdapter = "unset" THEN "undefined"
              ELSE u.scaffoldRequesterAdapter)

ResolveConfig(u) ==
  CASE u.entry = "cli" -> main(u)
    [] u.entry = "loadAndResolveConfig" -> loadAndResolveConfig(u)
    [] OTHER -> direct(u)

\* const baseOutputDir = path.resolve(process.cwd(), packageConfig.outputDir)
baseOutputDir == "out/"

\* path.isAbsolute(configuredPath) ? configuredPath : path.resolve(baseOutputDir, configuredPath)
actualAbsoluteCustomRequesterPath(filePath) ==
  IF StartsWith(filePath, "/") THEN filePath
  ELSE baseOutputDir \o ReplaceFirst(filePath, "./", "")

tagOutputDir(tag) == baseOutputDir \o sanitizedTagName(tag) \o "/"

BundleFiles == {"types.ts", "functions.ts", "hooks.ts", "client.ts", "index.ts"}

Paths ==
  {tagOutputDir(tag) \o f : tag \in FirstTags, f \in BundleFiles}
  \cup {actualAbsoluteCustomRequesterPath(p) : p \in {"./sg-requester.ts", "/abs/requester.ts"}}

\* a file: where its content comes from, whether it is in the formatter's
\* form, and for a types, functions or hooks file what it holds
File(origin, formatted, text) == [origin |-> origin, formatted |-> formatted, text |-> text]

Absent == File("absent", FALSE, <<>>)

Content(origin, formatted) == File(origin, formatted, <<>>)

At(at, group) == [at |-> at, group |-> group]

NoRun == [ran |-> FALSE, files |-> [p \in Paths |-> Absent]]

\* fsSync.existsSync that never finds the file
existsSyncNever(path) == FALSE

\* fsSync.existsSync(path)
existsSync(path) == files[path] # Absent

\* the results the run holds for a group: those of its operations, in order
OfGroup(tag) == SelectSeq(generated, LAMBDA e : e.op.tag = tag)

\* the types text of one group: the text of its operations, in order
RECURSIVE TagText(_, _)
TagText(tag, n) ==
  IF n = 0 THEN <<>>
  ELSE TagText(tag, n - 1)
       \o (IF generated[n].op.tag = tag THEN generated[n].types.typesString ELSE <<>>)

typesContent(tag) == TagText(tag, Len(generated))

\* the accessor factories of one group, in order
functionsContent(tag) == [i \in 1..Len(OfGroup(tag)) |-> OfGroup(tag)[i].fn]

\* the subscription factories of one group, in order
hooksContent(tag) == [i \in 1..Len(OfGroup(tag)) |-> OfGroup(tag)[i].hook]

\* await fs.writeFile(path, content): the generator's output is not yet formatted
writeFile(path, content) ==
  /\ files' = [files EXCEPT ![path] = content]
  /\ written' = written \cup {path}
  /\ trace' = Append(trace, [group |-> pc.group, path |-> path])

\* no call of _generateOperationTypes is under way
Settled == \A c \in Slots : tasks[c].at = "none"

\* an entry point resolves the configuration and, unless that fails, enters
\* runGenerator, which starts with an empty operationsByTag (index.ts 30-81);
\* the run's registry starts empty
StartRun ==
  /\ pc.at \in {"idle", "done", "failed"}
  /\ runs < MaxRuns
  /\ runs' = runs + 1
  /\ resolved' = ResolveConfig(userConfig)
  /\ start' = files
  /\ previous' = IF pc.at = "done" THEN [ran |-> TRUE, files |-> files] ELSE NoRun
  /\ written' = {}
  /\ trace' = <<>>
  /\ console' = <<>>
  /\ operationsByTag' = <<>>
  /\ generated' = <<>>
  /\ generatedTypeNames' = <<>>
  /\ pc' = IF ResolveConfig(userConfig).ok THEN At("grouping", 1) ELSE At("failed", 0)
  /\ UNCHANGED <<userConfig, files, document, packageConfig, subscription, helpers, call, tasks>>

\* where the run goes when the grouping loop has taken the operation at pc.group
AfterGrouping(byTag) ==
  IF pc.group < Len(document) THEN At("grouping", pc.group + 1)
  ELSE IF byTag = <<>> THEN At("scaffold", 0) ELSE At("generate", 1)

\* one operation of the grouping loop (index.ts 86-97): it joins the group of
\* its first tag, or is warned about; pushing onto an inherited member throws
GroupOperation ==
  /\ pc.at = "grouping"
  /\ LET tags == document[pc.group].tags
         info == document[pc.group].op
     IN  IF tags = <<>>
         THEN /\ console' = Append(console, NoTagsWarning(info))
              /\ pc' = AfterGrouping(operationsByTag)
              /\ UNCHANGED operationsByTag
         ELSE IF Lookup(operationsByTag, tags[1]) = "inherited"
              THEN /\ pc' = At("failed", 0)
                   /\ UNCHANGED <<operationsByTag, console>>
              ELSE /\ operationsByTag' =
                        Pushed(operationsByTag, tags[1], [info EXCEPT !.tag = tags[1]])
                   /\ pc' = AfterGrouping(operationsByTag')
                   /\ UNCHANGED console
  /\ UNCHANGED <<userConfig, files, resolved, runs, start, written, document, previous, trace>>
  /\ UNCHANGED genVars

\* generateFilesForTag turns to the next operation of the group once the one
\* before it has returned
ProcessOperation ==
  /\ pc.at = "generate"
  /\ Settled
  /\ Len(OfGroup(Tags[pc.group])) < Len(operationsByTag[pc.group].operations)
  /\ Called(1, operationsByTag[pc.group].operations[Len(OfGroup(Tags[pc.group])) + 1])
  /\ UNCHANGED runVars

\* await fs.writeFile(typesFilePath, typesContent) (116-119), once
\* generateFilesForTag has returned
WriteTypes ==
  /\ pc.at = "generate"
  /\ Settled
  /\ Len(OfGroup(Tags[pc.group])) = Len(operationsByTag[pc.group].operations)
  /\ writeFile(tagOutputDir(Tags[pc.group]) \o "types.ts",
               File("generator", FALSE, typesContent(Tags[pc.group])))
  /\ pc' = At("functions", pc.group)
  /\ UNCHANGED <<userConfig, resolved, runs, start, document, operationsByTag, console, previous>>
  /\ UNCHANGED genVars

\* await fs.writeFile(functionsFilePath, functionsContent) (117-121)
WriteFunctions ==
  /\ pc.at = "functions"
  /\ writeFile(tagOutputDir(Tags[pc.group]) \o "functions.ts",
               File("generator", FALSE, functionsContent(Tags[pc.group])))
  /\ pc' = At("hooks", pc.group)
  /\ UNCHANGED <<userConfig, resolved, runs, start, document, operationsByTag, console, previous>>
  /\ UNCHANGED genVars

\* if (packageConfig.generateHooks && hooksContent.trim()) write hooks.ts (123-129)
WriteHooks ==
  /\ pc.at = "hooks"
  /\ IF resolved.generateHooks
     THEN writeFile(tagOutputDir(Tags[pc.group]) \o "hooks.ts",
                    File("generator", FALSE, hooksContent(Tags[pc.group])))
     ELSE UNCHANGED <<files, written, trace>>
  /\ pc' = At("client", pc.group)
  /\ UNCHANGED <<userConfig, resolved, runs, start, document, operationsByTag, console, previous>>
  /\ UNCHANGED genVars

\* the orchestrator module of the group (140-218): a default requester without
\* a token module path throws out of the loop; otherwise the file is written
WriteClient ==
  /\ pc.at = "client"
  /\ IF resolved.useDefaultRequester /\ resolved.getTokenModulePath = ""
     THEN /\ pc' = At("failed", pc.group)
          /\ UNCHANGED <<files, written, trace>>
     ELSE /\ writeFile(tagOutputDir(Tags[pc.group]) \o "client.ts", Content("generator", FALSE))
          /\ pc' = At("index", pc.group)
  /\ UNCHANGED <<userConfig, resolved, runs, start, document, operationsByTag, console, previous>>
  /\ UNCHANGED genVars

\* the group's index.ts (220-228), then the next group or the end of the loop
WriteIndex ==
  /\ pc.at = "index"
  /\ writeFile(tagOutputDir(Tags[pc.group]) \o "index.ts", Content("generator", FALSE))
  /\ pc' = IF pc.group < Len(Tags) THEN At("generate", pc.group + 1) ELSE At("scaffold", 0)
  /\ UNCHANGED <<userConfig, resolved, runs, start, document, operationsByTag, console, previous>>
  /\ UNCHANGED genVars

\* the scaffold of the custom requester (231-262)
Scaffold ==
  /\ pc.at = "scaffold"
  /\ IF /\ ~resolved.useDefaultRequester
        /\ resolved.scaffoldRequesterAdapter = "true"
        /\ ~existsSync(actualAbsoluteCustomRequesterPath(resolved.filePath))
     THEN writeFile(actualAbsoluteCustomRequesterPath(resolved.filePath),
                    Content("scaffold", FALSE))
     ELSE UNCHANGED <<files, written, trace>>
  /\ pc' = At("prettier", 0)
  /\ UNCHANGED <<userConfig, resolved, runs, start, document, operationsByTag, console, previous>>
  /\ UNCHANGED genVars

\* npx prettier --write "${baseOutputDir}/**/*.ts" (264-288): every file under
\* the output directory that is not in the formatter's form is rewritten
Prettier ==
  /\ pc.at = "prettier"
  /\ files' = IF resolved.formatWithPrettier
              THEN [p \in Paths |->
                      IF StartsWith(p, baseOutputDir) /\ files[p] # Absent
                      THEN [files[p] EXCEPT !.formatted = TRUE] ELSE files[p]]
              ELSE files
  /\ pc' = At("done", 0)
  /\ UNCHANGED <<userConfig, resolved, runs, start, written, document, operationsByTag,
                 console, previous, trace>>
  /\ UNCHANGED genVars

\* between two runs the owner of the custom requester file writes it by hand,
\* in or out of the formatter's form, or removes it
UserEditsRequester(content) ==
  /\ pc.at \in {"done", "failed"}
  /\ runs < MaxRuns
  /\ ~userConfig.useDefaultRequester
  /\ files[actualAbsoluteCustomRequesterPath(userConfig.filePath)] # content
  /\ files' = [files EXCEPT ![actualAbsoluteCustomRequesterPath(userConfig.filePath)] = content]
  /\ pc' = At("idle", 0)
  /\ UNCHANGED <<userConfig, resolved, runs, start, written, document, operationsByTag,
                 console, previous, trace>>
  /\ UNCHANGED genVars

(***************************************************************************)
(* The default requester (createDefaultSGSyncRequester).  The repository   *)
(* holds two revisions of it: default-requester.ts, whose request function *)
(* is the requester itself, and the one in unnamed/part_004, whose         *)
(* doRequest is the `request` member of the requester.  A call awaits the  *)
(* token, then the HTTP call (axios under Node.js, fetch elsewhere).       *)
(***************************************************************************)
RequesterRevisions == {"default-requester.ts", "part_004"}

NoCall == [at |-> "none"]

\* what the HTTP call comes to: an answer (2xx or an error status, its body
\* JSON or not) or no response at all
HttpOutcomes ==
  {[received |-> TRUE, ok |-> ok, json |-> json] : ok \in BOOLEAN, json \in BOOLEAN}
  \cup {[received |-> FALSE, ok |-> FALSE, json |-> FALSE]}

\* a resolved SGSyncResponse; isError is "true" or left out ("undefined")
Envelope(data, isError) == [settled |-> "fulfilled", data |-> data, isError |-> isError]

\* `throw error`: the promise of the call rejects
Rethrown == [settled |-> "rejected", data |-> "error", isError |-> "undefined"]

\* the Node.js branch: await axios(axiosOptions) and its catch
axiosBranch(revision, outcome) ==
  IF outcome.received /\ outcome.ok THEN Envelope("payload", "undefined")
  ELSE IF outcome.received
       THEN Envelope("errorBody", IF revision = "part_004" THEN "true" ELSE "undefined")
       ELSE IF revision = "part_004" THEN Envelope("null", "true") ELSE Rethrown

\* await response.json().catch(...): {} in default-requester.ts, undefined in part_004
responseData(revision, outcome) ==
  IF outcome.json THEN (IF outcome.ok THEN "payload" ELSE "errorBody")
  ELSE IF revision = "part_004" THEN "undefined" ELSE "{}"

\* the browser branch: await fetch(fullUrl, fetchOptions) and its catch
fetchBranch(revision, outcome) ==
  IF ~outcome.received
  THEN (IF revision = "part_004" THEN Envelope("null", "true") ELSE Rethrown)
  ELSE Envelope(responseData(revision, outcome),
                IF revision = "part_004" /\ ~outcome.ok THEN "true" ELSE "undefined")

\* the call starts: the axios options are put together and, with authRequire
\* set and a getToken configured, the token is awaited
doRequest(authRequire, getToken, baseURL, url, environment) ==
  /\ call.at = "idle"
  /\ call' = [at |-> IF authRequire /\ getToken THEN "token" ELSE "transport",
              revision |-> call.revision,
              environment |-> environment,
              url |-> url,
              baseURL |-> IF baseURL # "" /\ ~StartsWith(url, "http://")
                             /\ ~StartsWith(url, "https://")
                          THEN baseURL ELSE "",
              Authorization |-> "",
              log |-> ""]
  /\ UNCHANGED <<packageConfig, generatedTypeNames, generated, subscription, helpers, tasks>>
  /\ UNCHANGED runVars

\* await config.getToken(): a token becomes the bearer header; no token or a
\* throwing getToken is logged and the call goes on without the header
getTokenSettles(token) ==
  /\ call.at = "token"
  /\ call' = [call EXCEPT !.at = "transport",
                          !.Authorization = IF token \in {"null", "throws"} THEN ""
                                            ELSE "Bearer " \o token,
                          !.log = CASE token = "null" -> "warn: no token was returned"
                                    [] token = "throws" -> "error: getting token"
                                    [] OTHER -> ""]
  /\ UNCHANGED <<packageConfig, generatedTypeNames, generated, subscription, helpers, tasks>>
  /\ UNCHANGED runVars

\* the HTTP call settles and with it the call of the requester
transportSettles(outcome) ==
  /\ call.at = "transport"
  /\ call' = [at |-> "settled",
              revision |-> call.revision,
              environment |-> call.environment,
              url |-> call.url,
              baseURL |-> call.baseURL,
              Authorization |-> call.Authorization,
              log |-> call.log,
              http |-> outcome,
              result |-> IF call.environment = "node"
                         THEN axiosBranch(call.revision, outcome)
                         ELSE fetchBranch(call.revision, outcome)]
  /\ UNCHANGED <<packageConfig, generatedTypeNames, generated, subscription, helpers, tasks>>
  /\ UNCHANGED runVars

Init ==
  /\ packageConfig \in Configs
  /\ generatedTypeNames = <<>>
  /\ generated = <<>>
  /\ subscription = Idle
  /\ helpers \in HelperRevisions
  /\ call = NoCall
  /\ tasks = [c \in Slots |-> NoTask]
  /\ document = <<>>
  /\ operationsByTag = <<>>
  /\ console = <<>>
  /\ previous = NoRun
  /\ trace = <<>>
  /\ userConfig = CallerConfig("cli", FALSE, "unset", "", TRUE, TRUE, "./sg-requester.ts")
  /\ files = [p \in Paths |-> Absent]
  /\ pc = At("idle", 0)
  /\ resolved = Unresolved
  /\ runs = 0
  /\ start = [p \in Paths |-> Absent]
  /\ written = {}

Next ==
  \/ \E op \in Operations : GenerateOperation(op)
  \/ \E k \in 1..MaxOps, outcome \in TransportOutcomes : InvokeSubscription(k, outcome)

Spec == Init /\ [][Next]_vars

\* the runs of the generator, from any caller configuration and with the custom
\* requester file absent or already written by hand
InitRuns ==
  /\ packageConfig = [operationTypePrefix |-> "", schemaTypePrefix |-> ""]
  /\ generatedTypeNames = <<>>
  /\ generated = <<>>
  /\ subscription = Idle
  /\ helpers = "generator-helpers.ts"
  /\ call = NoCall
  /\ tasks = [c \in Slots |-> NoTask]
  /\ userConfig \in CallerConfigs
  /\ document \in Documents
  /\ userConfig = ScaffoldingCaller \/ document = PetStore
  /\ operationsByTag = <<>>
  /\ console = <<>>
  /\ previous = NoRun
  /\ trace = <<>>
  /\ \E c \in {Absent, Content("user", FALSE)} :
       files = [p \in Paths |->
                  IF p = actualAbsoluteCustomRequesterPath(userConfig.filePath) THEN c
                  ELSE Absent]
  /\ pc = At("idle", 0)
  /\ resolved = Unresolved
  /\ runs = 0
  /\ start = files
  /\ written = {}

NextRuns ==
  \/ StartRun
  \/ GroupOperation
  \/ ProcessOperation
  \/ \E c \in Slots : RunsOn(c) /\ UNCHANGED runVars
  \/ \E c \in Slots : compileSettles(c) /\ UNCHANGED runVars
  \/ \E c \in Slots : Returns(c) /\ UNCHANGED runVars
  \/ WriteTypes
  \/ WriteFunctions
  \/ WriteHooks
  \/ WriteClient
  \/ WriteIndex
  \/ Scaffold
  \/ Prettier
  \/ \E c \in {Absent, Content("user", FALSE), Content("user", TRUE)} : UserEditsRequester(c)

SpecRuns == InitRuns /\ [][NextRuns]_vars

\* calls of the default requester, of either revision
InitRequester ==
  /\ packageConfig = [operationTypePrefix |-> "", schemaTypePrefix |-> ""]
  /\ generatedTypeNames = <<>>
  /\ generated = <<>>
  /\ subscription = Idle
  /\ helpers = "generator-helpers.ts"
  /\ \E revision \in RequesterRevisions : call = [at |-> "idle", revision |-> revision]
  /\ tasks = [c \in Slots |-> NoTask]
  /\ document = <<>>
  /\ operationsByTag = <<>>
  /\ console = <<>>
  /\ previous = NoRun
  /\ trace = <<>>
  /\ userConfig = CallerConfig("cli", TRUE, "unset", "./auth", TRUE, TRUE, "./sg-requester.ts")
  /\ files = [p \in Paths |-> Absent]
  /\ pc = At("idle", 0)
  /\ resolved = Unresolved
  /\ runs = 0
  /\ start = [p \in Paths |-> Absent]
  /\ written = {}

NextRequester ==
  \/ \E authRequire \in BOOLEAN, getToken \in BOOLEAN, baseURL \in {"", "https://api.test"},
        url \in {"/pets", "https://other.test/pets"}, environment \in {"node", "browser"} :
       doRequest(authRequire, getToken, baseURL, url, environment)
  \/ \E token \in {"secret", "null", "throws"} : getTokenSettles(token)
  \/ \E outcome \in HttpOutcomes : transportSettles(outcome)

SpecRequester == InitRequester /\ [][NextRequester]_vars

\* calls of _generateOperationTypes that share one registry and are not
\* awaited one after another: a second call may be made while the first rests
\* at an await, and the calls go on in any order
InterleavedOperations ==
  { op \in Operations :
      /\ op.method = "get"
      /\ op.path \in {"/pets", "/api/pets", "/store/inventory", "/store/legacy"} }

InitInterleaved ==
  /\ packageConfig \in Configs
  /\ generatedTypeNames = <<>>
  /\ generated = <<>>
  /\ subscription = Idle
  /\ helpers = "generator-helpers.ts"
  /\ call = NoCall
  /\ tasks = [c \in Slots |-> NoTask]
  /\ document = <<>>
  /\ operationsByTag = <<>>
  /\ console = <<>>
  /\ previous = NoRun
  /\ trace = <<>>
  /\ userConfig = CallerConfig("cli", FALSE, "unset", "", TRUE, TRUE, "./sg-requester.ts")
  /\ files = [p \in Paths |-> Absent]
  /\ pc = At("idle", 0)
  /\ resolved = Unresolved
  /\ runs = 0
  /\ start = [p \in Paths |-> Absent]
  /\ written = {}

\* a call is made for an operation not yet handed to the resolver; it takes
\* the first free slot
StartsOperation(c, op) ==
  /\ Len(generated) + Cardinality({ d \in Slots : tasks[d].at = "running" }) < MaxOps
  /\ \A i \in 1..Len(generated) : generated[i].op # op
  /\ \A d \in Slots : tasks[d].at = "running" => tasks[d].op # op
  /\ \A d \in Slots : d < c => tasks[d].at = "running"
  /\ Called(c, op)
  /\ UNCHANGED runVars

NextInterleaved ==
  \/ \E c \in Slots, op \in InterleavedOperations : StartsOperation(c, op)
  \/ \E c \in Slots : RunsOn(c) /\ UNCHANGED runVars
  \/ \E c \in Slots : compileSettles(c) /\ UNCHANGED runVars
  \/ \E c \in Slots : Returns(c) /\ UNCHANGED runVars

SpecInterleaved == InitInterleaved /\ [][NextInterleaved]_vars

(***************************************************************************)
(* Observations on a run.                                                  *)
(***************************************************************************)
\* the types text the run has emitted so far, over all groups
RECURSIVE RunText(_)
RunText(n) == IF n = 0 THEN <<>> ELSE RunText(n - 1) \o generated[n].types.typesString

TypesOfRun == RunText(Len(generated))

InSeq(seq, x) == \E i \in 1..Len(seq) : seq[i] = x

DeclCount(text, name) ==
  Cardinality({i \in 1..Len(text) : IsExportLine(text[i]) /\ DeclaredName(text[i]) = name})

Declares(text, name) == DeclCount(text, name) > 0

HasWord(text, word) ==
  \E i \in 1..Len(text) : \E j \in 1..Len(text[i]) : text[i][j] = word

WarnsFor(text, name) == \E i \in 1..Len(text) : IsWarningFor(text[i], name)

\* the fragments an operation hands to the compiler, with the name each is to declare
FragmentsOf(op) ==
  (IF op.requestBody \in SchemaIds
   THEN {[kind |-> "request", name |-> opPrefix(packageConfig) \o op.stem \o "_Request",
          throws |-> CompileThrows(op.requestBody)]}
   ELSE {})
  \cup
  {[kind |-> IF op.responses[i].code = primarySuccessCode(op.method)
             THEN "primary" ELSE "response",
    name |-> opPrefix(packageConfig) \o op.stem \o "_Response"
             \o (IF op.responses[i].code = primarySuccessCode(op.method)
                 THEN "" ELSE "_" \o op.responses[i].code),
    throws |-> CompileThrows(op.responses[i].body)] :
     i \in {j \in 1..Len(op.responses) :
              StartsWith(op.responses[j].code, "2") /\ op.responses[j].body \in SchemaIds}}
  \cup
  (IF Len(op.queryParams) > 0
   THEN {[kind |-> "parameters", name |-> opPrefix(packageConfig) \o op.stem \o "_Parameters",
          throws |-> \E i \in 1..Len(op.queryParams) : op.queryParams[i].schema = "Broken"]}
   ELSE {})

\* the name the resolver returns for a fragment's field
ReturnedName(t, f) ==
  CASE f.kind = "request" -> t.requestBodyTypeName
    [] f.kind = "primary" -> t.primaryResponseTypeName
    [] f.kind = "parameters" -> t.parametersTypeName
    [] OTHER -> f.name

\* the failure flag of a fragment's field (a non-primary response has none)
FailureFlag(t, f) ==
  CASE f.kind = "request" -> t.requestBodyFailed
    [] f.kind = "primary" -> t.responseTypeFailed
    [] f.kind = "parameters" -> t.parametersTypeFailed
    [] OTHER -> FALSE

\* the named schemas the model's fragments can pull in
AuxNames == {"Pet", "Category", "SSGEN_Legacy"}

\* the named schemas the compiled fragments of an operation pull in
AuxOf(op) ==
  {x \in AuxNames :
     \/ /\ op.requestBody \in SchemaIds
        /\ \E n \in 1..Len(AuxOrder(SchemaRefs(op.requestBody), <<>>)) :
             AuxOrder(SchemaRefs(op.requestBody), <<>>)[n] = x
     \/ \E i \in 1..Len(op.responses) :
          /\ StartsWith(op.responses[i].code, "2")
          /\ op.responses[i].body \in SchemaIds
          /\ \E n \in 1..Len(AuxOrder(SchemaRefs(op.responses[i].body), <<>>)) :
               AuxOrder(SchemaRefs(op.responses[i].body), <<>>)[n] = x}

(***************************************************************************)
(* C1: with one registry shared by a run, every declaration name is        *)
(* inserted into the registry at most once and declared at most once in    *)
(* the run's types text; a fragment whose name is already reserved is      *)
(* neither compiled nor emitted, raises no warning, leaves the registry    *)
(* as it was, and counts as a success: its name is returned, no failure    *)
(* flag is set and a primary response is marked generated.                 *)
(***************************************************************************)
C1_RegistryReservesOnce ==
  /\ \A i, j \in 1..Len(generatedTypeNames) :
       i # j => generatedTypeNames[i] # generatedTypeNames[j]
  /\ \A i \in 1..Len(TypesOfRun) :
       IsExportLine(TypesOfRun[i]) =>
         /\ DeclCount(TypesOfRun, DeclaredName(TypesOfRun[i])) = 1
         /\ SetHas(generatedTypeNames, DeclaredName(TypesOfRun[i]))
  /\ \A k \in 1..Len(generated) :
       LET e == generated[k]
           reserved == {f \in FragmentsOf(e.op) : SetHas(e.before, f.name)}
       IN  /\ \A f \in reserved :
                /\ ~Declares(e.types.typesString, f.name)
                /\ ~Declares(e.types.typesString, schemaPrefix(packageConfig) \o f.name)
                /\ ~WarnsFor(e.types.typesString, f.name)
                /\ ReturnedName(e.types, f) = f.name
                /\ ~FailureFlag(e.types, f)
                /\ f.kind = "primary" => e.types.primaryResponseTypeGenerated
           /\ (reserved = FragmentsOf(e.op)) =>
                /\ e.types.typesString = <<>>
                /\ e.types.registry = e.before

\* an operation found the names of its primary response and of its parameters
\* reserved, the parameters being a fragment the compiler would have rejected
C1_Witness ==
  \E k \in 1..Len(generated) :
    /\ \E f \in FragmentsOf(generated[k].op) :
         f.kind = "primary" /\ SetHas(generated[k].before, f.name)
    /\ \E f \in FragmentsOf(generated[k].op) :
         f.kind = "parameters" /\ f.throws /\ SetHas(generated[k].before, f.name)

(***************************************************************************)
(* C2: every declaration name that an accessor or subscription factory     *)
(* uses as a generic default is declared, under exactly that name, in the  *)
(* types text the run has emitted.                                         *)
(***************************************************************************)
DefaultMarkers == {"any", "never", "void", "Error"}

\* the generic defaults of one generated operation that name a declaration
NamedDefaults(e) ==
  ({e.fn.TResponse, e.fn.TRequestBody, e.fn.TQueryParams}
   \cup {e.hook.generics[i][2] : i \in 1..Len(e.hook.generics)}) \ DefaultMarkers

C2_DefaultsNameEmittedDeclarations ==
  \A k \in 1..Len(generated) :
    \A d \in NamedDefaults(generated[k]) :
      \E i \in 1..Len(TypesOfRun) :
        /\ IsExportLine(TypesOfRun[i])
        /\ Qualified(tagImportName(generated[k].op.tag), DeclaredName(TypesOfRun[i])) = d

(***************************************************************************)
(* C3: once an auxiliary declaration X has been renamed to                 *)
(* <schemaPrefix>X, the emitted types contain no whole-word occurrence of  *)
(* the unprefixed X: not before X's declaration in the same fragment, not  *)
(* inside X's own body, not in a later fragment.                           *)
(***************************************************************************)
C3_NoUnprefixedAuxiliaryName ==
  \A x \in AuxNames :
    (/\ ~StartsWith(x, schemaPrefix(packageConfig))
     /\ Declares(TypesOfRun, schemaPrefix(packageConfig) \o x))
    => ~HasWord(TypesOfRun, x)

(***************************************************************************)
(* C4: when the compiler rejects the fragment that was to declare N, the   *)
(* resolver still returns: it appends to the types text a warning comment  *)
(* naming N and no declaration of N, does not reserve N, sets the failure  *)
(* flag of a request body, of the query parameters or of the primary       *)
(* response (a non-primary response has no flag), and goes on to compile   *)
(* the operation's remaining fragments, each of which is then reserved or  *)
(* warned about in its turn.                                               *)
(***************************************************************************)
\* the fragments of the k-th operation that reached the compiler and were rejected
RejectedFragments(k) ==
  {f \in FragmentsOf(generated[k].op) : f.throws /\ ~SetHas(generated[k].before, f.name)}

C4_CompileFailureWarnsAndContinues ==
  \A k \in 1..Len(generated) :
    LET e == generated[k]
    IN  \A f \in RejectedFragments(k) :
          /\ WarnsFor(e.types.typesString, f.name)
          /\ ~Declares(e.types.typesString, f.name)
          /\ ~Declares(e.types.typesString, schemaPrefix(packageConfig) \o f.name)
          /\ ~SetHas(e.types.registry, f.name)
          /\ f.kind = "request" =>
               e.types.requestBodyFailed /\ e.types.requestBodyTypeName = Null
          /\ f.kind = "parameters" =>
               e.types.parametersTypeFailed /\ e.types.parametersTypeName = Null
          /\ f.kind = "primary" => e.types.responseTypeFailed
          /\ \A g \in FragmentsOf(e.op) \ {f} :
               IF g.throws /\ ~SetHas(e.before, g.name)
               THEN WarnsFor(e.types.typesString, g.name)
               ELSE SetHas(e.types.registry, g.name)

\* an operation whose request body was rejected and whose primary response,
\* compiled after it, was emitted
C4_Witness ==
  \E k \in 1..Len(generated) :
    /\ \E f \in RejectedFragments(k) : f.kind = "request"
    /\ generated[k].types.requestBodyFailed
    /\ generated[k].types.primaryResponseTypeGenerated
    /\ \E i \in 1..Len(generated[k].types.typesString) :
         IsExportLine(generated[k].types.typesString[i])

\* the statement as the specification words it: the rejected name N gets a
\* warning comment and a fallback alias that declares N, and its flag is set
C4_AsStated ==
  \A k \in 1..Len(generated) :
    \A f \in RejectedFragments(k) :
      /\ WarnsFor(generated[k].types.typesString, f.name)
      /\ Declares(generated[k].types.typesString, f.name)
      /\ f.kind # "response" => FailureFlag(generated[k].types, f)

(***************************************************************************)
(* C5: the generic defaults.  TRequestBody and TQueryParams default to the *)
(* resolved declaration name when it compiled, to `any` when the operation *)
(* declares the field but its compilation failed, and to `never` when the  *)
(* operation declares none; TResponse defaults to the resolved name, to    *)
(* `any` on failure, and to `void` when the primary response has no        *)
(* content.                                                                *)
(***************************************************************************)
C5_GenericDefaults ==
  \A k \in 1..Len(generated) :
    LET e == generated[k]
        imp == tagImportName(e.op.tag)
    IN  /\ e.fn.TRequestBody =
             (IF e.types.requestBodyTypeName # Null
              THEN Qualified(imp, e.types.requestBodyTypeName)
              ELSE IF e.op.requestBody # "absent" THEN "any" ELSE "never")
        /\ e.fn.TQueryParams =
             (IF e.types.parametersTypeName # Null
              THEN Qualified(imp, e.types.parametersTypeName)
              ELSE IF Len(e.op.queryParams) > 0 THEN "any" ELSE "never")
        /\ e.types.responseTypeFailed => e.fn.TResponse = "any"
        /\ e.types.primaryResponseTypeName = "void" => e.fn.TResponse = "void"
        /\ (/\ e.types.primaryResponseTypeGenerated
            /\ e.types.primaryResponseTypeName \notin {Null, "void"})
           => e.fn.TResponse = Qualified(imp, e.types.primaryResponseTypeName)

(***************************************************************************)
(* C6: whether the accessor's signature has a `data` parameter and its     *)
(* request descriptor a `data` key depends only on whether the operation   *)
(* declares a request body, and likewise `params` only on whether it       *)
(* declares query parameters; never on whether the type compiled.          *)
(***************************************************************************)

C6_ParametersFollowDeclaration ==
  \A k \in 1..Len(generated) :
    LET e == generated[k]
    IN  /\ InSeq(e.fn.params, "data") <=> e.op.requestBody # "absent"
        /\ InSeq(e.fn.descriptor, "data") <=> e.op.requestBody # "absent"
        /\ InSeq(e.fn.params, "params") <=> Len(e.op.queryParams) > 0
        /\ InSeq(e.fn.descriptor, "params") <=> Len(e.op.queryParams) > 0

(***************************************************************************)
(* C7: every failure of the injected transport, a rejected request or an   *)
(* envelope flagged isError, surfaces as a failure of the subscription:    *)
(* queryFn or mutationFn fails, and the subscription never reports success *)
(* with the data of a failed transport call.                               *)
(***************************************************************************)
C7_TransportFailureSurfaces ==
  subscription # Idle =>
    ((subscription.transport.settled = "rejected" \/ subscription.transport.isError)
     => subscription.status = "error")

(***************************************************************************)
(* C9: when two operations of different tag groups both pull in the same   *)
(* nested schema X, the declaration of X is emitted exactly once, by the   *)
(* operation processed first, and the types text of both groups refers to  *)
(* it by the one schema-prefixed name.                                     *)
(***************************************************************************)
\* no fragment of the k-th operation found its name reserved
CompiledAfresh(k) ==
  \A f \in FragmentsOf(generated[k].op) : ~SetHas(generated[k].before, f.name)

\* a fragment of the operation names the schema x in its root declaration
RefersDirectly(op, x) ==
  \/ op.requestBody \in SchemaIds /\ InSeq(SchemaRefs(op.requestBody), x)
  \/ \E i \in 1..Len(op.responses) :
       /\ StartsWith(op.responses[i].code, "2")
       /\ op.responses[i].body \in SchemaIds
       /\ InSeq(SchemaRefs(op.responses[i].body), x)

C9_SharedAuxiliaryAcrossGroups ==
  \A i, j \in 1..Len(generated) : \A x \in AuxNames :
    LET prefixed == schemaPrefix(packageConfig) \o x
        first == generated[i]
        second == generated[j]
    IN  (/\ i < j
         /\ first.op.tag # second.op.tag
         /\ x \in AuxOf(first.op) /\ x \in AuxOf(second.op)
         /\ CompiledAfresh(i) /\ CompiledAfresh(j)
         /\ \A h \in 1..(i - 1) : x \notin AuxOf(generated[h].op)
         /\ ~StartsWith(x, schemaPrefix(packageConfig)))
        => /\ DeclCount(TypesOfRun, prefixed) = 1
           /\ Declares(first.types.typesString, prefixed)
           /\ ~Declares(second.types.typesString, prefixed)
           /\ RefersDirectly(second.op, x)
                => HasWord(typesContent(second.op.tag), prefixed)
           /\ ~HasWord(typesContent(first.op.tag), x)
           /\ ~HasWord(typesContent(second.op.tag), x)

(***************************************************************************)
(* C10: an operation-scoped declaration (<stem>_Request, <stem>_Response,  *)
(* <stem>_Response_<code>, <stem>_Parameters) is emitted under its own     *)
(* name, carrying only the optional operation prefix and never the schema  *)
(* prefix; every auxiliary declaration carries the schema prefix; a name   *)
(* that already starts with the schema prefix is left as it is.            *)
(***************************************************************************)
\* the operation-scoped names of the operations processed so far
OperationScopedNames ==
  UNION {{f.name : f \in FragmentsOf(generated[k].op)} : k \in 1..Len(generated)}

C10_PrefixPolicy ==
  /\ \A k \in 1..Len(generated) :
       \A f \in FragmentsOf(generated[k].op) :
         (~f.throws /\ ~SetHas(generated[k].before, f.name))
         => Declares(generated[k].types.typesString, f.name)
  /\ \A i \in 1..Len(TypesOfRun) :
       (IsExportLine(TypesOfRun[i]) /\ DeclaredName(TypesOfRun[i]) \notin OperationScopedNames)
       => StartsWith(DeclaredName(TypesOfRun[i]), schemaPrefix(packageConfig))
  /\ \A x \in AuxNames :
       (/\ StartsWith(x, schemaPrefix(packageConfig))
        /\ \E k \in 1..Len(generated) : x \in AuxOf(generated[k].op) /\ CompiledAfresh(k))
       => /\ Declares(TypesOfRun, x)
          /\ ~Declares(TypesOfRun, schemaPrefix(packageConfig) \o x)

(***************************************************************************)
(* C8: over any sequence of runs with a custom transport, every run        *)
(* rewrites each group's orchestrator (client) module; a run writes the    *)
(* transport scaffold exactly when it finds the file absent and            *)
(* scaffolding is enabled, which it is unless the caller turned it off;    *)
(* a scaffold file that already exists is left as the run found it.        *)
(***************************************************************************)
C8_OrchestratorRewrittenScaffoldOnce ==
  (pc.at = "done" /\ ~resolved.useDefaultRequester) =>
    LET path == actualAbsoluteCustomRequesterPath(resolved.filePath)
    IN  /\ \A g \in 1..Len(Tags) : (tagOutputDir(Tags[g]) \o "client.ts") \in written
        /\ (path \in written)
             <=> (start[path] = Absent /\ userConfig.scaffoldRequesterAdapter # "false")
        /\ start[path] # Absent => files[path] = start[path]

(***************************************************************************)
(* C11: when the primary success response reaches the compiler and is      *)
(* rejected, or is declared with content but without an application/json   *)
(* schema, responseTypeFailed is set, the accessor factory's TResponse     *)
(* defaults to `any` and the response warning is placed above the factory; *)
(* for a rejected fragment the types text carries the warning comment      *)
(* naming the type and no declaration of it.                               *)
(***************************************************************************)
\* the primary success responses of the k-th operation that failed, either way
FailedPrimaryResponses(k) ==
  {r \in {generated[k].op.responses[i] : i \in 1..Len(generated[k].op.responses)} :
     /\ r.code = primarySuccessCode(generated[k].op.method)
     /\ \/ r.body = "noJson"
        \/ \E f \in RejectedFragments(k) : f.kind = "primary"}

C11_PrimaryResponseFailureDegrades ==
  \A k \in 1..Len(generated) :
    LET e == generated[k]
    IN  \A r \in FailedPrimaryResponses(k) :
          /\ e.types.responseTypeFailed
          /\ e.fn.TResponse = "any"
          /\ InSeq(e.fn.warnings, "Response type generation failed or schema missing")
          /\ r.body \in SchemaIds =>
               \A f \in RejectedFragments(k) :
                 f.kind = "primary" =>
                   /\ WarnsFor(e.types.typesString, f.name)
                   /\ ~Declares(e.types.typesString, f.name)
                   /\ ~Declares(e.types.typesString, schemaPrefix(packageConfig) \o f.name)

\* one operation whose primary response was rejected by the compiler and
\* another whose primary response has content but no JSON schema
C11_Witness ==
  /\ \E k \in 1..Len(generated) :
       \E r \in FailedPrimaryResponses(k) : r.body \in SchemaIds
  /\ \E k \in 1..Len(generated) :
       \E r \in FailedPrimaryResponses(k) : r.body = "noJson"

(***************************************************************************)
(* C12: when the primary success response (201 for POST, 200 otherwise)    *)
(* is declared with no content, primaryResponseTypeName is "void", the     *)
(* accessor's TResponse defaults to void and the accessor returns          *)
(* undefined, not the payload of the response.                             *)
(***************************************************************************)
\* the primary success response of the operation is declared with no content
PrimaryHasNoContent(op) ==
  \E i \in 1..Len(op.responses) :
    /\ op.responses[i].code = primarySuccessCode(op.method)
    /\ op.responses[i].body = "noContent"

ResponseTypeName(op, i) ==
  opPrefix(packageConfig) \o op.stem \o "_Response"
  \o (IF op.responses[i].code = (IF op.method = "post" THEN "201" ELSE "200")
      THEN "" ELSE "_" \o op.responses[i].code)

C13_SuccessResponsesNamedByStatus ==
  \A k \in 1..Len(generated) :
    LET e == generated[k]
        primary == IF e.op.method = "post" THEN "201" ELSE "200"
    IN  /\ \A i \in 1..Len(e.op.responses) :
             ~StartsWith(e.op.responses[i].code, "2") =>
               /\ ~HasWord(e.types.typesString,
                           opPrefix(packageConfig) \o e.op.stem \o "_Response_"
                           \o e.op.responses[i].code)
               /\ ~HasWord(e.types.typesString,
                           schemaPrefix(packageConfig) \o opPrefix(packageConfig)
                           \o e.op.stem \o "_Response_" \o e.op.responses[i].code)
        /\ \A i \in 1..Len(e.op.responses) :
             (/\ StartsWith(e.op.responses[i].code, "2")
              /\ e.op.responses[i].body \in SchemaIds
              /\ ~CompileThrows(e.op.responses[i].body)
              /\ ~SetHas(e.before, ResponseTypeName(e.op, i)))
             => /\ SetHas(e.types.registry, ResponseTypeName(e.op, i))
                /\ Declares(e.types.typesString, ResponseTypeName(e.op, i))
        /\ e.types.primaryResponseTypeName
             \in {Null, "void", opPrefix(packageConfig) \o e.op.stem \o "_Response"}
        /\ (\A i \in 1..Len(e.op.responses) : e.op.responses[i].code # primary)
             => e.types.primaryResponseTypeName = Null
        /\ \A i \in 1..Len(e.op.responses) :
             (e.op.responses[i].code = primary /\ e.op.responses[i].body \in SchemaIds)
             => e.types.primaryResponseTypeName
                  = opPrefix(packageConfig) \o e.op.stem \o "_Response"

(***************************************************************************)
(* C14: a compile failure of a 2xx response under a status other than the  *)
(* primary one does not set responseTypeFailed and leaves                  *)
(* primaryResponseTypeName and primaryResponseTypeGenerated as the primary *)
(* response alone determines them, whether the failing status is visited   *)
(* before or after the primary one.                                        *)
(***************************************************************************)
\* the operation without its responses under non-primary statuses
PrimaryOnly(op) ==
  LET IsPrimary(r) == r.code = primarySuccessCode(op.method)
  IN  [op EXCEPT !.responses = SelectSeq(op.responses, IsPrimary)]

\* the positions of the non-primary 2xx responses of the k-th operation that
\* reached the compiler and were rejected
RejectedNonPrimary(k) ==
  {i \in 1..Len(generated[k].op.responses) :
     /\ StartsWith(generated[k].op.responses[i].code, "2")
     /\ generated[k].op.responses[i].code # primarySuccessCode(generated[k].op.method)
     /\ generated[k].op.responses[i].body \in SchemaIds
     /\ CompileThrows(generated[k].op.responses[i].body)
     /\ ~SetHas(generated[k].before, ResponseTypeName(generated[k].op, i))}

\* what the primary response alone yields, from the registry the operation found
AlonePrimary(k) ==
  _generateOperationTypes(PrimaryOnly(generated[k].op), generated[k].before,
                          opPrefix(packageConfig), schemaPrefix(packageConfig))

C14_NonPrimaryFailureLeavesPrimary ==
  \A k \in 1..Len(generated) :
    RejectedNonPrimary(k) # {} =>
      /\ generated[k].types.responseTypeFailed = AlonePrimary(k).responseTypeFailed
      /\ generated[k].types.primaryResponseTypeName = AlonePrimary(k).primaryResponseTypeName
      /\ generated[k].types.primaryResponseTypeGenerated
           = AlonePrimary(k).primaryResponseTypeGenerated

\* one operation whose failing status is visited before the primary one and
\* another whose failing status is visited after it, both with a primary type
C14_Witness ==
  /\ \E k \in 1..Len(generated) : \E i \in RejectedNonPrimary(k) :
       /\ \E j \in (i + 1)..Len(generated[k].op.responses) :
            generated[k].op.responses[j].code = primarySuccessCode(generated[k].op.method)
       /\ generated[k].types.primaryResponseTypeGenerated
  /\ \E k \in 1..Len(generated) : \E i \in RejectedNonPrimary(k) :
       /\ \E j \in 1..(i - 1) :
            generated[k].op.responses[j].code = primarySuccessCode(generated[k].op.method)
       /\ generated[k].types.primaryResponseTypeGenerated

(***************************************************************************)
(* C15: an operation that declares no request body gets an accessor with   *)
(* no `data` parameter and no `data` in the request descriptor; one that   *)
(* declares no query parameters gets no `params` parameter and no `params` *)
(* in the request descriptor.                                              *)
(***************************************************************************)
C15_AbsentFieldsHaveNoParameter ==
  \A k \in 1..Len(generated) :
    /\ generated[k].op.requestBody = "absent" =>
         /\ ~InSeq(generated[k].fn.params, "data")
         /\ ~InSeq(generated[k].fn.descriptor, "data")
    /\ generated[k].op.queryParams = <<>> =>
         /\ ~InSeq(generated[k].fn.params, "params")
         /\ ~InSeq(generated[k].fn.descriptor, "params")

\* an operation with query parameters and no request body next to one with a
\* request body and no query parameters
C15_Witness ==
  /\ \E k \in 1..Len(generated) :
       /\ generated[k].op.requestBody = "absent"
       /\ InSeq(generated[k].fn.params, "params")
  /\ \E k \in 1..Len(generated) :
       /\ generated[k].op.queryParams = <<>>
       /\ InSeq(generated[k].fn.params, "data")

HookDefault(e, generic) ==
  IF \E i \in 1..Len(e.hook.generics) : e.hook.generics[i][1] = generic
  THEN e.hook.generics[CHOOSE i \in 1..Len(e.hook.generics) :
                         e.hook.generics[i][1] = generic][2]
  ELSE NoName

C17_MutationVariables ==
  \A k \in 1..Len(generated) :
    LET e == generated[k]
        body == e.op.requestBody # "absent"
        query == e.op.queryParams # <<>>
        n == Len(e.op.pathParams)
    IN  e.op.method \in {"post", "put", "patch", "delete"} =>
          /\ e.hook.shape = "useMutation"
          /\ (body /\ query) =>
               /\ HookDefault(e, "TVariables") = e.fn.TRequestBody
               /\ InSeq(e.hook.params, "queryParams")
               /\ SubSeq(e.hook.callArgs, n + 1, n + 2) = <<"variables", "queryParams">>
          /\ (body /\ ~query) =>
               /\ HookDefault(e, "TVariables") = e.fn.TRequestBody
               /\ ~InSeq(e.hook.params, "queryParams")
          /\ (~body /\ query) =>
               /\ HookDefault(e, "TVariables") = e.fn.TQueryParams
               /\ HookDefault(e, "TVariables") # "void"
               /\ ~InSeq(e.hook.params, "queryParams")
               /\ e.hook.callArgs[n + 1] = "variables"
          /\ (~body /\ ~query) => HookDefault(e, "TVariables") = "void"

(***************************************************************************)
(* C19: for GET /pets/{id} with tag Pets, no query parameters and a 200    *)
(* response with a plain object schema, exactly one response type is       *)
(* emitted, the accessor's parameters are (id: string, options?, flags?),  *)
(* and the subscription is read-shaped with the cache key                  *)
(* ['pets', 'PetsById', id]: the endpoint base name derived from the path  *)
(* /pets/{id} is PetsById.                                                 *)
(***************************************************************************)
\* the operation of the scenario
IsGetPetById(op) ==
  /\ op.method = "get" /\ op.path = "/pets/{id}" /\ op.tag = "Pets"
  /\ op.pathParams = <<"id">> /\ op.queryParams = <<>> /\ op.requestBody = "absent"

C19_GetPetByIdScenario ==
  \A k \in 1..Len(generated) :
    (IsGetPetById(generated[k].op) /\ CompiledAfresh(k)) =>
      /\ Cardinality({i \in 1..Len(generated[k].types.typesString) :
                        IsExportLine(generated[k].types.typesString[i])}) = 1
      /\ generated[k].types.primaryResponseTypeGenerated
      /\ generated[k].fn.params = <<"id", "callSpecificOptions", "customFlags">>
      /\ generated[k].fn.paramTypes[1] = "string"
      /\ generated[k].hook.shape = "useQuery"
      /\ generated[k].hook.queryKey = <<"'pets'", "'PetsById'", "id">>

(***************************************************************************)
(* C18: the cache key of a read-shaped subscription is exactly the tuple   *)
(* [sanitized tag name, endpoint base name, each path parameter in         *)
(* declaration order, the query-parameters object if the operation         *)
(* declares query parameters]; two invocations whose path and query        *)
(* arguments are equal build the same tuple.                               *)
(***************************************************************************)
\* the values an argument of the subscription's callable may take
ArgValues == {"u", "v"}

\* `const queryKey = [...] as const` evaluated in a call with the arguments args:
\* a quoted part is a string literal, any other part reads a parameter
queryKey(parts, args) ==
  [i \in 1..Len(parts) |->
     IF StartsWith(parts[i], "'") THEN parts[i] ELSE args[parts[i]]]

C18_CacheKey ==
  \A k \in 1..Len(generated) :
    LET e == generated[k]
        names == {e.hook.params[i] : i \in 1..Len(e.hook.params)}
        keyed == {toTsIdentifier(e.op.pathParams[i]) : i \in 1..Len(e.op.pathParams)}
                 \cup {"queryParams"}
    IN  e.op.method \notin {"post", "put", "patch", "delete"} =>
          /\ e.hook.shape = "useQuery"
          /\ e.hook.queryKey =
               <<"'" \o sanitizedTagName(e.op.tag) \o "'",
                 "'" \o endpointBaseName(e.op.path) \o "'">>
               \o [i \in 1..Len(e.op.pathParams) |-> toTsIdentifier(e.op.pathParams[i])]
               \o (IF e.op.queryParams # <<>> THEN <<"queryParams">> ELSE <<>>)
          /\ \A a, b \in [names -> ArgValues] :
               (\A n \in names \cap keyed : a[n] = b[n])
               => queryKey(e.hook.queryKey, a) = queryKey(e.hook.queryKey, b)

(***************************************************************************)
(* C20: the request function of the default requester never throws or      *)
(* rejects when the HTTP call fails, whether the server answered with an   *)
(* error status or no response was received: the call resolves to an       *)
(* envelope whose isError flag is true.                                    *)
(***************************************************************************)
C20_DefaultRequesterNeverThrows ==
  (call.at = "settled" /\ ~(call.http.received /\ call.http.ok)) =>
    /\ call.result.settled = "fulfilled"
    /\ call.result.isError = "true"

(***************************************************************************)
(* C21: when the default transport is selected and the token module path   *)
(* is missing, the run fails before any tag group is processed: at the     *)
(* moment the error is raised the run has written no types, functions,     *)
(* hooks, client or index file of any group.                               *)
(***************************************************************************)
C21_ConfigurationErrorBeforeAnyGroup ==
  (pc.at = "failed" /\ userConfig.useDefaultRequester /\ userConfig.getTokenModulePath = "")
    => written = {}

(***************************************************************************)
(* C25: base names derived from paths are collision-free: two operations   *)
(* of a run with different paths have different endpoint base names, also  *)
(* when the paths differ only in {parameter} segments or separators, and   *)
(* two operations with the same method never share a declaration name.     *)
(***************************************************************************)
C25_BaseNamesCollisionFree ==
  \A i, j \in 1..Len(generated) :
    generated[i].op.path # generated[j].op.path =>
      /\ endpointBaseName(generated[i].op.path) # endpointBaseName(generated[j].op.path)
      /\ (/\ generated[i].op.method = generated[j].op.method
          /\ generated[i].types.primaryResponseTypeName \notin {Null, "void"})
         => generated[i].types.primaryResponseTypeName
              # generated[j].types.primaryResponseTypeName

(***************************************************************************)
(* C29: every result of _generateOperationTypes satisfies:                 *)
(* requestBodyFailed implies requestBodyTypeName is null;                  *)
(* parametersTypeFailed implies parametersTypeName is null;                *)
(* primaryResponseTypeGenerated and responseTypeFailed are never both      *)
(* true; primaryResponseTypeGenerated implies primaryResponseTypeName is   *)
(* non-null; and primaryResponseTypeName = "void" implies                  *)
(* primaryResponseTypeGenerated and not responseTypeFailed.                *)
(***************************************************************************)
C29_ResultInvariants ==
  \A k \in 1..Len(generated) :
    LET t == generated[k].types
    IN  /\ t.requestBodyFailed => t.requestBodyTypeName = Null
        /\ t.parametersTypeFailed => t.parametersTypeName = Null
        /\ ~(t.primaryResponseTypeGenerated /\ t.responseTypeFailed)
        /\ t.primaryResponseTypeGenerated => t.primaryResponseTypeName # Null
        /\ t.primaryResponseTypeName = "void"
             => (t.primaryResponseTypeGenerated /\ ~t.responseTypeFailed)

\* a run with one result whose request body failed while its primary response
\* was generated, and one whose primary response is void
C29_Witness ==
  /\ \E k \in 1..Len(generated) :
       /\ generated[k].types.requestBodyFailed
       /\ generated[k].types.primaryResponseTypeGenerated
  /\ \E k \in 1..Len(generated) :
       /\ generated[k].types.primaryResponseTypeName = "void"
       /\ generated[k].types.primaryResponseTypeGenerated

(***************************************************************************)
(* C26: for every shape, path parameters, request body and resolved        *)
(* query-parameters type, the positional arguments the subscription hands  *)
(* to the accessor callable are as many as the callable's parameters and   *)
(* mean the same per position (path parameters, data, params,              *)
(* callSpecificOptions, customFlags), also for a read-shaped operation     *)
(* that declares a request body.                                           *)
(***************************************************************************)
\* the parameter of the accessor an argument of the subscription stands for
ArgumentMeaning(op, t, arg) ==
  CASE arg = "variables" ->
         (IF hasRequestBody(op) THEN "data"
          ELSE IF t.parametersTypeName # Null THEN "params" ELSE "void")
    [] arg = "queryParams" -> "params"
    [] arg = "undefined" -> "callSpecificOptions"
    [] OTHER -> arg

C26_SubscriptionArgumentsMatchAccessor ==
  \A k \in 1..Len(generated) :
    LET e == generated[k]
    IN  /\ Len(e.hook.callArgs) = Len(e.fn.params)
        /\ \A i \in 1..Len(e.hook.callArgs) :
             ArgumentMeaning(e.op, e.types, e.hook.callArgs[i]) = e.fn.params[i]

(***************************************************************************)
(* C27: every {placeholder} of the path that is interpolated into the      *)
(* generated URL is bound to a parameter of the generated callable: the    *)
(* identifiers in the URL are among the path-parameter identifiers of the  *)
(* signature, also when the parameter is declared at path-item level.      *)
(***************************************************************************)
C27_UrlPlaceholdersBound ==
  \A k \in 1..Len(generated) :
    LET e == generated[k]
    IN  \A i \in 1..Len(e.fn.url) :
          \E j \in 1..Len(e.op.pathParams) : e.fn.params[j] = e.fn.url[i]

(***************************************************************************)
(* C23: once the grouping loop of a run is over, every operation of the    *)
(* document with a non-empty tag list stands in exactly one group, the one *)
(* keyed by its first tag, and the operations of a group stand in the      *)
(* order the document has them; an operation without tags stands in no     *)
(* group and has been warned about; the loop does not end the run.         *)
(***************************************************************************)
\* the places of the groups that hold the i-th operation of the document
PlacesOf(i) ==
  { <<g, k>> \in (1..Len(operationsByTag)) \X (1..Len(document)) :
      /\ k <= Len(operationsByTag[g].operations)
      /\ operationsByTag[g].operations[k].path = document[i].op.path
      /\ operationsByTag[g].operations[k].method = document[i].op.method }

\* the grouping loop of the current run is behind it, however it ended
GroupingOver == resolved.ok /\ pc.at \notin {"idle", "grouping"}

C23_GroupedByFirstTag ==
  GroupingOver =>
    /\ \A i \in 1..Len(document) :
         IF document[i].tags = <<>>
         THEN /\ PlacesOf(i) = {}
              /\ InSeq(console, NoTagsWarning(document[i].op))
         ELSE /\ Cardinality(PlacesOf(i)) = 1
              /\ \A p \in PlacesOf(i) : Tags[p[1]] = document[i].tags[1]
    /\ \A i \in 1..Len(document) : \A j \in 1..Len(document) :
         \A p \in PlacesOf(i) : \A q \in PlacesOf(j) :
           (i < j /\ p[1] = q[1]) => p[2] < q[2]
    /\ Len(console) = Cardinality({ i \in 1..Len(document) : document[i].tags = <<>> })

(***************************************************************************)
(* C28: two groups of one run never have the same output directory, and    *)
(* no file a run has written is written again later in the same run.       *)
(***************************************************************************)
C28_GroupsWriteApart ==
  /\ \A g \in 1..Len(Tags) : \A h \in 1..Len(Tags) :
       g # h => tagOutputDir(Tags[g]) # tagOutputDir(Tags[h])
  /\ \A i \in 1..Len(trace) : \A j \in 1..Len(trace) :
       i # j => trace[i].path # trace[j].path

(***************************************************************************)
(* C22: within one run the groups are processed one after another.  The    *)
(* writes of a group come in the order types, functions, hooks (if any),   *)
(* client, index; while an operation of a group is being resolved the      *)
(* bundles of all groups before it are complete and nothing of its own or  *)
(* of a later group has been written; a write for a group finds the        *)
(* bundles of all groups before it complete.  At most one call is under    *)
(* way, so at most one compilation is in flight, and the compilations of   *)
(* one operation come in the order request body, 2xx responses in the      *)
(* order of the status codes, query parameters.                            *)
(***************************************************************************)
\* the files of a group's bundle, in the order the run writes them
BundleOf(g) ==
  [i \in 1..(IF resolved.generateHooks THEN 5 ELSE 4) |->
     tagOutputDir(Tags[g])
     \o (IF resolved.generateHooks
         THEN <<"types.ts", "functions.ts", "hooks.ts", "client.ts", "index.ts">>[i]
         ELSE <<"types.ts", "functions.ts", "client.ts", "index.ts">>[i])]

\* the paths written for a group so far, in order
WritesOf(g) ==
  LET w == SelectSeq(trace, LAMBDA e : e.group = g)
  IN  [i \in 1..Len(w) |-> w[i].path]

\* the place of a site in the text of the function
SiteRank(op, site) ==
  CASE site.kind = "requestBody" -> 0
    [] site.kind = "response" -> site.i
    [] OTHER -> Len(op.responses) + 1

C22_GroupsAndCompilationsInSequence ==
  /\ \A g \in 1..Len(Tags) :
       /\ Len(WritesOf(g)) <= Len(BundleOf(g))
       /\ WritesOf(g) = SubSeq(BundleOf(g), 1, Len(WritesOf(g)))
  /\ \A j \in 1..Len(trace) : \A g \in 1..Len(Tags) :
       (trace[j].group = 0 \/ g < trace[j].group) =>
         /\ WritesOf(g) = BundleOf(g)
         /\ \A i \in 1..Len(trace) : trace[i].group = g => i < j
  /\ \A c \in Slots :
       tasks[c].at = "running" =>
         /\ pc.at = "generate"
         /\ tasks[c].op.tag = Tags[pc.group]
         /\ \A g \in 1..Len(Tags) :
              WritesOf(g) = IF g < pc.group THEN BundleOf(g) ELSE <<>>
         /\ \A d \in Slots : tasks[d].at = "running" => d = c
         /\ \A i \in 1..Len(tasks[c].compiled) :
              /\ tasks[c].compiled[i].kind = "response" =>
                   StartsWith(tasks[c].op.responses[tasks[c].compiled[i].i].code, "2")
              /\ \A j \in 1..Len(tasks[c].compiled) :
                   i < j => SiteRank(tasks[c].op, tasks[c].compiled[i])
                            < SiteRank(tasks[c].op, tasks[c].compiled[j])

\* the second group's operation awaits its second compilation, the first
\* group's bundle being complete
C22_Witness ==
  /\ pc = At("generate", 2)
  /\ tasks[1].at = "running"
  /\ tasks[1].awaiting
  /\ Len(tasks[1].compiled) = 2
  /\ WritesOf(1) = BundleOf(1)
  /\ Len(BundleOf(1)) = 5

TextOf(c) == IF tasks[c].at = "running" THEN tasks[c].locals.typesString ELSE <<>>

CombinedText == TypesOfRun \o TextOf(1) \o TextOf(2)

\* the type names the call in slot c has handed to the compiler so far
CompiledNames(c) ==
  { SiteTypeName(tasks[c].op, tasks[c].compiled[i], opPrefix(packageConfig)) :
      i \in 1..Len(tasks[c].compiled) }

C30_InterleavedDeclaredOnce ==
  \A i \in 1..Len(CombinedText) :
    IsExportLine(CombinedText[i]) => DeclCount(CombinedText, CombinedText[i][3]) = 1

\* two calls under way have both compiled one type name, each having found it
\* not yet reserved, and both are past it; the name's declaration and that of
\* a schema both pulled in stand in the combined text
C30_Witness ==
  /\ tasks[1].at = "running"
  /\ tasks[2].at = "running"
  /\ ~tasks[1].awaiting
  /\ ~tasks[2].awaiting
  /\ tasks[1].site > Len(Sites(tasks[1].op))
  /\ tasks[2].site > Len(Sites(tasks[2].op))
  /\ \E name \in CompiledNames(1) \cap CompiledNames(2) :
       DeclCount(CombinedText, schemaPrefix(packageConfig) \o name) = 1
====
